---- MODULE Spec2Model ----
(***************************************************************************)
(* A model of the document core of nano-ai-editor: TextBuffer, Cursor,     *)
(* SelectionManager, ClipboardManager, SearchManager and the key dispatch  *)
(* of Editor.                                                              *)
(*                                                                         *)
(* A Python string is a sequence of one-character strings, a list is a     *)
(* sequence, and indices are the 0-based indices of the source. Indexing   *)
(* and slicing follow Python: a negative index counts from the end, an     *)
(* index outside the list raises IndexError, a slice clamps its ends.      *)
(* An operation is an operator from the objects it touches to a result     *)
(* record holding the objects afterwards, the value returned and the       *)
(* exception raised ("none" when it returns normally); what the operation  *)
(* wrote before it raised is kept.                                         *)
(***************************************************************************)
EXTENDS Integers, Sequences, FiniteSets, TLC

VARIABLES
    text_buffer,        \* TextBuffer: [lines, filename, modified]
    cursor,             \* Cursor: [row, col, desired_col]
    clipboard_manager,  \* ClipboardManager: [clipboard_lines, is_line_mode]
    search_manager,     \* SearchManager: [last_search, current_matches, current_match_index]
    selection_manager,  \* SelectionManager: [is_selecting, start_row, start_col, end_row, end_col]
    disk,               \* the file the buffer is saved to: [exists, content]
    ret,                \* value returned by the last call
    raised,             \* exception raised by the last call, "none" if it returned
    replaced,           \* indices of the matches replace_current has replaced since the last scan
    pc,                 \* number of calls made so far
    args,               \* the arguments a scenario's calls were made with
    orig                \* the objects as they were at the start

vars == <<text_buffer, cursor, clipboard_manager, search_manager, selection_manager,
          disk, ret, raised, replaced, pc, args, orig>>

----------------------------------------------------------------------------
(* Bounds of the model *)

\* characters of a document, line breaks between its lines included
MaxDoc == 4
\* calls made in one session of the state machine
MaxCalls == 3
\* largest row and column a selection endpoint is given
MaxSel == 2
\* fragments in a clipboard
MaxFrags == 3

----------------------------------------------------------------------------
(* Characters and strings *)

LF == "\n"
CR == "\r"
LineBreaks == {LF, CR}
Lower == {"a", "b"}
Upper == {"A", "B"}
Blank == {" "}
Punct == {"."}

isalnum(ch) == ch \in Lower \cup Upper
isspace(ch) == ch \in Blank \cup LineBreaks
lower(ch) == IF ch = "A" THEN "a" ELSE IF ch = "B" THEN "b" ELSE ch

Min(a, b) == IF a < b THEN a ELSE b
Max(a, b) == IF a < b THEN b ELSE a

\* strings of at most n characters over the alphabet cs
Strings(cs, n) == UNION {[1..k -> cs] : k \in 0..n}

----------------------------------------------------------------------------
(* Python values *)

NoneVal == "<None>"
Truthy(s) == s # NoneVal /\ s # ""

RetNone == <<"None">>
RetBool(b) == <<"bool", b>>
RetInt(n) == <<"int", n>>
RetPos(r, c) == <<"pos", r, c>>

\* s[i] is defined (no IndexError)
InRange(s, i) == -Len(s) <= i /\ i < Len(s)
Norm(s, i) == IF i < 0 THEN i + Len(s) ELSE i
PyGet(s, i) == s[Norm(s, i) + 1]
PySet(s, i, x) == [s EXCEPT ![Norm(s, i) + 1] = x]
PyDel(s, i) == SubSeq(s, 1, Norm(s, i)) \o SubSeq(s, Norm(s, i) + 2, Len(s))
\* a slice end: negative counts from the end, then clamped to [0, len]
SliceIdx(s, i) == IF i < 0 THEN Max(i + Len(s), 0) ELSE Min(i, Len(s))
\* s[lo:hi], s[lo:], s[:hi]
PySlice(s, lo, hi) == SubSeq(s, SliceIdx(s, lo) + 1, SliceIdx(s, hi))
SliceFrom(s, lo) == SubSeq(s, SliceIdx(s, lo) + 1, Len(s))
SliceTo(s, hi) == SubSeq(s, 1, SliceIdx(s, hi))
\* list.insert that always puts the element first
PyInsert_at_front(s, i, x) == <<x>> \o s

\* list.insert that always appends
PyInsert_appends(s, i, x) == Append(s, x)

\* list.insert(i, x)
PyInsert(s, i, x) == SliceTo(s, i) \o <<x>> \o SliceFrom(s, i)

\* 1-based index of the first character of s at or after i that is in cs, 0 if none
RECURSIVE IndexOf(_, _, _)
IndexOf(s, cs, i) ==
    IF i > Len(s) THEN 0
    ELSE IF s[i] \in cs THEN i
    ELSE IndexOf(s, cs, i + 1)

FirstBreak(s, i) == IndexOf(s, LineBreaks, i)

\* str.splitlines(): "\r\n" is one break, a final break opens no line
RECURSIVE splitlines(_)
splitlines(s) ==
    IF s = <<>> THEN <<>>
    ELSE LET i == FirstBreak(s, 1) IN
         IF i = 0 THEN <<s>>
         ELSE LET j == IF s[i] = CR /\ i < Len(s) /\ s[i + 1] = LF THEN i + 1 ELSE i
              IN <<SubSeq(s, 1, i - 1)>> \o splitlines(SubSeq(s, j + 1, Len(s)))

\* '\n'.join(ls)
RECURSIVE join(_)
join(ls) ==
    IF ls = <<>> THEN <<>>
    ELSE IF Len(ls) = 1 THEN ls[1]
    ELSE ls[1] \o <<LF>> \o join(Tail(ls))

----------------------------------------------------------------------------
(* TextBuffer *)

NewTextBuffer == [lines |-> << <<>> >>, filename |-> NoneVal, modified |-> FALSE]

Res(tb, rv, exc) == [tb |-> tb, ret |-> rv, raised |-> exc]

get_line_count(tb) == Len(tb.lines)
get_line(tb, row) == IF 0 <= row /\ row < Len(tb.lines) THEN tb.lines[row + 1] ELSE <<>>
get_line_length(tb, row) == IF 0 <= row /\ row < Len(tb.lines) THEN Len(tb.lines[row + 1]) ELSE 0

\* readable: open and read succeed; content: what the file holds
load_file(tb, filename, readable, content) ==
    IF ~readable THEN Res(tb, RetNone, "IOError")
    ELSE LET split == IF content # <<>> THEN splitlines(content) ELSE <<>>
             ls == IF split = <<>> THEN << <<>> >> ELSE split
         IN Res([lines |-> ls, filename |-> filename, modified |-> FALSE],
                RetBool(TRUE), "none")

\* io: "ok", "open" (open fails) or "write" (write fails after n characters)
save_file(tb, dsk, filename, io, n) ==
    LET tb1 == IF Truthy(filename) THEN [tb EXCEPT !.filename = filename] ELSE tb
        content == join(tb1.lines)
    IN IF ~Truthy(tb1.filename)
       THEN [tb |-> tb1, disk |-> dsk, ret |-> RetNone, raised |-> "ValueError"]
       ELSE IF io = "open"
       THEN [tb |-> tb1, disk |-> dsk, ret |-> RetNone, raised |-> "IOError"]
       ELSE IF io = "write"
       THEN [tb |-> tb1, disk |-> [exists |-> TRUE, content |-> SliceTo(content, n)],
             ret |-> RetNone, raised |-> "IOError"]
       ELSE [tb |-> [tb1 EXCEPT !.modified = FALSE],
             disk |-> [exists |-> TRUE, content |-> content],
             ret |-> RetBool(TRUE), raised |-> "none"]

RECURSIVE Extend(_, _)
Extend(ls, row) == IF Len(ls) <= row THEN Extend(Append(ls, <<>>), row) ELSE ls

insert_char(tb, row, col, char) ==
    LET ls == IF row >= Len(tb.lines) THEN Extend(tb.lines, row) ELSE tb.lines
        tb1 == [tb EXCEPT !.lines = ls]
    IN IF ~InRange(ls, row) THEN Res(tb1, RetNone, "IndexError")
       ELSE LET line == PyGet(ls, row)
            IN Res([tb1 EXCEPT !.lines = PySet(ls, row, SliceTo(line, col) \o char \o SliceFrom(line, col)),
                             !.modified = TRUE],
                   RetNone, "none")

\* the character removed without the flag being set
delete_char_unflagged(tb, row, col) ==
    IF row >= Len(tb.lines) THEN Res(tb, RetBool(FALSE), "none")
    ELSE IF ~InRange(tb.lines, row) THEN Res(tb, RetNone, "IndexError")
    ELSE LET line == PyGet(tb.lines, row) IN
         IF col >= Len(line) THEN Res(tb, RetBool(FALSE), "none")
         ELSE IF col < Len(line)
         THEN Res([tb EXCEPT !.lines = PySet(tb.lines, row, SliceTo(line, col) \o SliceFrom(line, col + 1))],
                  RetBool(TRUE), "none")
         ELSE Res(tb, RetBool(FALSE), "none")

delete_char(tb, row, col) ==
    IF row >= Len(tb.lines) THEN Res(tb, RetBool(FALSE), "none")
    ELSE IF ~InRange(tb.lines, row) THEN Res(tb, RetNone, "IndexError")
    ELSE LET line == PyGet(tb.lines, row) IN
         IF col >= Len(line) THEN Res(tb, RetBool(FALSE), "none")
         ELSE IF col < Len(line)
         THEN Res([tb EXCEPT !.lines = PySet(tb.lines, row, SliceTo(line, col) \o SliceFrom(line, col + 1)),
                            !.modified = TRUE],
                  RetBool(TRUE), "none")
         ELSE Res(tb, RetBool(FALSE), "none")

\* the join leaves the joined line in place
backspace_char_keeps_line(tb, row, col) ==
    IF col > 0
    THEN IF ~InRange(tb.lines, row) THEN Res(tb, RetNone, "IndexError")
         ELSE LET line == PyGet(tb.lines, row)
              IN Res([tb EXCEPT !.lines = PySet(tb.lines, row, SliceTo(line, col - 1) \o SliceFrom(line, col)),
                                !.modified = TRUE],
                     RetPos(row, col - 1), "none")
    ELSE IF row > 0
    THEN IF ~InRange(tb.lines, row - 1) \/ ~InRange(tb.lines, row)
         THEN Res(tb, RetNone, "IndexError")
         ELSE LET prev_line == PyGet(tb.lines, row - 1)
                  current_line == PyGet(tb.lines, row)
                  joined == PySet(tb.lines, row - 1, prev_line \o current_line)
              IN Res([tb EXCEPT !.lines = joined, !.modified = TRUE],
                     RetPos(row - 1, Len(prev_line)), "none")
    ELSE Res(tb, RetPos(row, col), "none")

backspace_char(tb, row, col) ==
    IF col > 0
    THEN IF ~InRange(tb.lines, row) THEN Res(tb, RetNone, "IndexError")
         ELSE LET line == PyGet(tb.lines, row)
              IN Res([tb EXCEPT !.lines = PySet(tb.lines, row, SliceTo(line, col - 1) \o SliceFrom(line, col)),
                                !.modified = TRUE],
                     RetPos(row, col - 1), "none")
    ELSE IF row > 0
    THEN IF ~InRange(tb.lines, row - 1) \/ ~InRange(tb.lines, row)
         THEN Res(tb, RetNone, "IndexError")
         ELSE LET prev_line == PyGet(tb.lines, row - 1)
                  current_line == PyGet(tb.lines, row)
                  joined == PySet(tb.lines, row - 1, prev_line \o current_line)
              IN Res([tb EXCEPT !.lines = PyDel(joined, row), !.modified = TRUE],
                     RetPos(row - 1, Len(prev_line)), "none")
    ELSE Res(tb, RetPos(row, col), "none")

insert_line(tb, row, col) ==
    IF row >= Len(tb.lines)
    THEN Res([tb EXCEPT !.lines = Append(tb.lines, <<>>), !.modified = TRUE],
             RetPos(row + 1, 0), "none")
    ELSE IF ~InRange(tb.lines, row) THEN Res(tb, RetNone, "IndexError")
    ELSE LET line == PyGet(tb.lines, row)
             cut == PySet(tb.lines, row, SliceTo(line, col))
         IN Res([tb EXCEPT !.lines = PyInsert(cut, row + 1, SliceFrom(line, col)),
                           !.modified = TRUE],
                RetPos(row + 1, 0), "none")

----------------------------------------------------------------------------
(* ClipboardManager *)

NewClipboardManager == [clipboard_lines |-> <<>>, is_line_mode |-> FALSE]

CRes(cb, tb, rv, exc) == [cb |-> cb, tb |-> tb, ret |-> rv, raised |-> exc]

\* the range taken one row too low
LinesInRange_shifted(tb, a, b) == [i \in 1..Max(b - a, 0) |-> get_line(tb, a + i)]

\* no line taken
LinesInRange_empty(tb, a, b) == <<>>

\* [get_line(r) for r in range(a, b)]
LinesInRange(tb, a, b) == [i \in 1..Max(b - a, 0) |-> get_line(tb, a + i - 1)]

copy_text(cb, tb, start_row, start_col, end_row, end_col) ==
    IF start_row = end_row
    THEN [clipboard_lines |-> <<PySlice(get_line(tb, start_row), start_col, end_col)>>,
          is_line_mode |-> FALSE]
    ELSE [clipboard_lines |->
              <<SliceFrom(get_line(tb, start_row), start_col)>>
              \o LinesInRange(tb, start_row + 1, end_row)
              \o <<SliceTo(get_line(tb, end_row), end_col)>>,
          is_line_mode |-> FALSE]

copy_line(cb, tb, row) ==
    [clipboard_lines |-> <<get_line(tb, row)>>, is_line_mode |-> TRUE]

\* one line deleted at most
DeleteRun_once(ls, at, n) ==
    IF n <= 0 \/ ~InRange(ls, at) THEN [lines |-> ls, ok |-> TRUE]
    ELSE [lines |-> PyDel(ls, at), ok |-> TRUE]

\* for _ in range(n): if at < len(ls): del ls[at]; ok is FALSE once a del raised
RECURSIVE DeleteRun(_, _, _)
DeleteRun(ls, at, n) ==
    IF n <= 0 THEN [lines |-> ls, ok |-> TRUE]
    ELSE IF at < Len(ls)
    THEN IF InRange(ls, at) THEN DeleteRun(PyDel(ls, at), at, n - 1)
         ELSE [lines |-> ls, ok |-> FALSE]
    ELSE DeleteRun(ls, at, n - 1)

cut_text(cb, tb, start_row, start_col, end_row, end_col) ==
    LET cb1 == copy_text(cb, tb, start_row, start_col, end_row, end_col) IN
    IF ~InRange(tb.lines, start_row) THEN CRes(cb1, tb, RetNone, "IndexError")
    ELSE IF start_row = end_row
    THEN LET line == get_line(tb, start_row)
             new_line == SliceTo(line, start_col) \o SliceFrom(line, end_col)
         IN CRes(cb1, [tb EXCEPT !.lines = PySet(tb.lines, start_row, new_line),
                                 !.modified = TRUE],
                 RetNone, "none")
    ELSE LET first_line == get_line(tb, start_row)
             last_line == get_line(tb, end_row)
             combined_line == SliceTo(first_line, start_col) \o SliceFrom(last_line, end_col)
             run == DeleteRun(PySet(tb.lines, start_row, combined_line),
                              start_row + 1, end_row - start_row)
         IN IF run.ok
            THEN CRes(cb1, [tb EXCEPT !.lines = run.lines, !.modified = TRUE], RetNone, "none")
            ELSE CRes(cb1, [tb EXCEPT !.lines = run.lines], RetNone, "IndexError")

\* the line emptied, never removed
cut_line_clears(cb, tb, row) ==
    CRes(copy_line(cb, tb, row),
         [tb EXCEPT !.lines = PySet(tb.lines, row, <<>>), !.modified = TRUE], RetNone, "none")

cut_line(cb, tb, row) ==
    LET cb1 == copy_line(cb, tb, row) IN
    IF Len(tb.lines) > 1
    THEN IF InRange(tb.lines, row)
         THEN CRes(cb1, [tb EXCEPT !.lines = PyDel(tb.lines, row), !.modified = TRUE],
                   RetNone, "none")
         ELSE CRes(cb1, tb, RetNone, "IndexError")
    ELSE IF tb.lines = <<>> THEN CRes(cb1, tb, RetNone, "IndexError")
    ELSE CRes(cb1, [tb EXCEPT !.lines = PySet(tb.lines, 0, <<>>), !.modified = TRUE],
              RetNone, "none")

\* the first fragment of the range inserted, the others dropped
InsertRun_first_only(ls, frags, at, from, upto) ==
    IF from >= upto THEN ls ELSE PyInsert(ls, at + from, frags[from + 1])

\* for i in range(from, upto): ls.insert(at + i, frags[i])
RECURSIVE InsertRun(_, _, _, _, _)
InsertRun(ls, frags, at, from, upto) ==
    IF from >= upto THEN ls
    ELSE InsertRun(PyInsert(ls, at + from, frags[from + 1]), frags, at, from + 1, upto)

\* row, col: the cursor's fields
paste_text(cb, tb, row, col) ==
    LET clip == cb.clipboard_lines
        k == Len(clip)
    IN IF clip = <<>> THEN CRes(cb, tb, RetPos(row, col), "none")
       ELSE IF cb.is_line_mode
       THEN CRes(cb, [tb EXCEPT !.lines = InsertRun(tb.lines, clip, row, 0, k),
                                !.modified = TRUE],
                 RetPos(row + k, 0), "none")
       ELSE IF k = 1
       THEN LET line == get_line(tb, row)
                new_line == SliceTo(line, col) \o clip[1] \o SliceFrom(line, col)
            IN IF ~InRange(tb.lines, row) THEN CRes(cb, tb, RetNone, "IndexError")
               ELSE CRes(cb, [tb EXCEPT !.lines = PySet(tb.lines, row, new_line),
                                        !.modified = TRUE],
                         RetPos(row, col + Len(clip[1])), "none")
       ELSE LET current_line == get_line(tb, row)
                line_before == SliceTo(current_line, col)
                line_after == SliceFrom(current_line, col)
            IN IF ~InRange(tb.lines, row) THEN CRes(cb, tb, RetNone, "IndexError")
               ELSE LET first == PySet(tb.lines, row, line_before \o clip[1])
                        middle == InsertRun(first, clip, row, 1, k - 1)
                        last_line == clip[k] \o line_after
                    IN CRes(cb, [tb EXCEPT !.lines = PyInsert(middle, row + k - 1, last_line),
                                           !.modified = TRUE],
                            RetPos(row + k - 1, Len(clip[k])), "none")

----------------------------------------------------------------------------
(* SearchManager (literal terms; use_regex stays False) *)

NewSearchManager ==
    [last_search |-> <<>>, current_matches |-> <<>>, current_match_index |-> -1,
     case_sensitive |-> FALSE]

SRes(sm, tb, rv, exc) == [sm |-> sm, tb |-> tb, ret |-> rv, raised |-> exc]

RetMatch(m) == <<"match", m.row, m.col, m.length, m.text>>

\* the characters compared as written whatever the flag
MatchesAt_exact_case(line, term, case_sensitive, at) ==
    /\ at + Len(term) <= Len(line)
    /\ \A i \in 1..Len(term) : line[at + i] = term[i]

\* the compiled pattern matches line at 0-based offset at
MatchesAt(line, term, case_sensitive, at) ==
    /\ at + Len(term) <= Len(line)
    /\ \A i \in 1..Len(term) :
          IF case_sensitive THEN line[at + i] = term[i]
          ELSE lower(line[at + i]) = lower(term[i])

\* pattern.finditer(line): leftmost matches, each search resuming after the last
RECURSIVE finditer(_, _, _, _)
finditer(line, term, case_sensitive, at) ==
    IF at + Len(term) > Len(line) THEN <<>>
    ELSE IF MatchesAt(line, term, case_sensitive, at)
    THEN <<at>> \o finditer(line, term, case_sensitive, at + Len(term))
    ELSE finditer(line, term, case_sensitive, at + 1)

\* every match recorded one column to the right
RowMatches_shifted(line, row, term, case_sensitive) ==
    LET starts == finditer(line, term, case_sensitive, 0)
    IN [i \in 1..Len(starts) |->
           [row |-> row, col |-> starts[i] + 1, length |-> Len(term),
            text |-> SubSeq(line, starts[i] + 1, starts[i] + Len(term))]]

RowMatches(line, row, term, case_sensitive) ==
    LET starts == finditer(line, term, case_sensitive, 0)
    IN [i \in 1..Len(starts) |->
           [row |-> row, col |-> starts[i], length |-> Len(term),
            text |-> SubSeq(line, starts[i] + 1, starts[i] + Len(term))]]

RECURSIVE ScanRows(_, _, _, _)
ScanRows(tb, term, case_sensitive, row) ==
    IF row >= get_line_count(tb) THEN <<>>
    ELSE RowMatches(get_line(tb, row), row, term, case_sensitive)
         \o ScanRows(tb, term, case_sensitive, row + 1)

find_all_matches(sm, tb, search_term) ==
    IF search_term = <<>> THEN <<>>
    ELSE ScanRows(tb, search_term, sm.case_sensitive, 0)

\* the first match strictly after the column on the start row
RECURSIVE FirstAtOrAfter_strict(_, _, _, _)
FirstAtOrAfter_strict(matches, start_row, start_col, i) ==
    IF i >= Len(matches) THEN -1
    ELSE IF \/ matches[i + 1].row > start_row
            \/ (matches[i + 1].row = start_row /\ matches[i + 1].col > start_col)
    THEN i
    ELSE FirstAtOrAfter_strict(matches, start_row, start_col, i + 1)

\* index (0-based) of the first match at or after (start_row, start_col), -1 if none
RECURSIVE FirstAtOrAfter(_, _, _, _)
FirstAtOrAfter(matches, start_row, start_col, i) ==
    IF i >= Len(matches) THEN -1
    ELSE IF \/ matches[i + 1].row > start_row
            \/ (matches[i + 1].row = start_row /\ matches[i + 1].col >= start_col)
    THEN i
    ELSE FirstAtOrAfter(matches, start_row, start_col, i + 1)

search(sm, tb, search_term, start_row, start_col) ==
    LET found == find_all_matches(sm, tb, search_term)
        sm1 == [sm EXCEPT !.last_search = search_term, !.current_matches = found]
        i == FirstAtOrAfter(found, start_row, start_col, 0)
    IN IF found = <<>> THEN SRes(sm1, tb, RetNone, "none")
       ELSE IF i >= 0
       THEN SRes([sm1 EXCEPT !.current_match_index = i], tb, RetMatch(found[i + 1]), "none")
       ELSE SRes([sm1 EXCEPT !.current_match_index = 0], tb, RetMatch(found[1]), "none")

\* the index stopping at the last match instead of wrapping
find_next_no_wrap(sm, tb) ==
    IF sm.current_matches = <<>> \/ sm.last_search = <<>> THEN SRes(sm, tb, RetNone, "none")
    ELSE LET i == Min(sm.current_match_index + 1, Len(sm.current_matches) - 1)
         IN SRes([sm EXCEPT !.current_match_index = i], tb,
                 RetMatch(PyGet(sm.current_matches, i)), "none")

find_next(sm, tb) ==
    IF sm.current_matches = <<>> \/ sm.last_search = <<>> THEN SRes(sm, tb, RetNone, "none")
    ELSE LET i == IF sm.current_match_index < Len(sm.current_matches) - 1
                  THEN sm.current_match_index + 1 ELSE 0
             sm1 == [sm EXCEPT !.current_match_index = i]
         IN IF InRange(sm.current_matches, i)
            THEN SRes(sm1, tb, RetMatch(PyGet(sm.current_matches, i)), "none")
            ELSE SRes(sm1, tb, RetNone, "IndexError")

\* the index stepped back without wrapping to the end
find_previous_no_wrap(sm, tb) ==
    IF sm.current_matches = <<>> \/ sm.last_search = <<>> THEN SRes(sm, tb, RetNone, "none")
    ELSE LET i == sm.current_match_index - 1
             sm1 == [sm EXCEPT !.current_match_index = i]
         IN IF InRange(sm.current_matches, i)
            THEN SRes(sm1, tb, RetMatch(PyGet(sm.current_matches, i)), "none")
            ELSE SRes(sm1, tb, RetNone, "IndexError")

find_previous(sm, tb) ==
    IF sm.current_matches = <<>> \/ sm.last_search = <<>> THEN SRes(sm, tb, RetNone, "none")
    ELSE LET i == IF sm.current_match_index > 0
                  THEN sm.current_match_index - 1 ELSE Len(sm.current_matches) - 1
             sm1 == [sm EXCEPT !.current_match_index = i]
         IN IF InRange(sm.current_matches, i)
            THEN SRes(sm1, tb, RetMatch(PyGet(sm.current_matches, i)), "none")
            ELSE SRes(sm1, tb, RetNone, "IndexError")

\* matches after index i on the given row move by length_diff
Rebase(matches, i, row, length_diff) ==
    [j \in 1..Len(matches) |->
        IF j - 1 > i /\ matches[j].row = row
        THEN [matches[j] EXCEPT !.col = @ + length_diff]
        ELSE matches[j]]

replace_current(sm, tb, replacement) ==
    IF sm.current_match_index < 0 \/ sm.current_match_index >= Len(sm.current_matches)
    THEN SRes(sm, tb, RetBool(FALSE), "none")
    ELSE LET match == sm.current_matches[sm.current_match_index + 1]
             line == get_line(tb, match.row)
             new_line == SliceTo(line, match.col) \o replacement
                         \o SliceFrom(line, match.col + match.length)
             length_diff == Len(replacement) - match.length
         IN IF ~InRange(tb.lines, match.row) THEN SRes(sm, tb, RetNone, "IndexError")
            ELSE SRes([sm EXCEPT !.current_matches =
                           Rebase(@, sm.current_match_index, match.row, length_diff)],
                      [tb EXCEPT !.lines = PySet(tb.lines, match.row, new_line),
                                 !.modified = TRUE],
                      RetBool(TRUE), "none")

\* the replacement loop stopping before the first match of the document
RECURSIVE ReplaceEach_but_first(_, _, _, _)
ReplaceEach_but_first(ls, matches, replacement, k) ==
    IF k <= 1 THEN ls
    ELSE LET match == matches[k]
             line == ls[match.row + 1]
             new_line == SliceTo(line, match.col) \o replacement
                         \o SliceFrom(line, match.col + match.length)
         IN ReplaceEach_but_first([ls EXCEPT ![match.row + 1] = new_line],
                                  matches, replacement, k - 1)

\* the matches replaced one by one, first match first
RECURSIVE ReplaceEach_forward(_, _, _, _)
ReplaceEach_forward(ls, matches, replacement, k) ==
    IF k = 0 THEN ls
    ELSE LET match == matches[Len(matches) - k + 1]
             line == ls[match.row + 1]
             new_line == SliceTo(line, match.col) \o replacement
                         \o SliceFrom(line, match.col + match.length)
         IN ReplaceEach_forward([ls EXCEPT ![match.row + 1] = new_line],
                                matches, replacement, k - 1)

\* the matches replaced one by one, last match first
RECURSIVE ReplaceEach(_, _, _, _)
ReplaceEach(ls, matches, replacement, k) ==
    IF k = 0 THEN ls
    ELSE LET match == matches[k]
             line == ls[match.row + 1]
             new_line == SliceTo(line, match.col) \o replacement
                         \o SliceFrom(line, match.col + match.length)
         IN ReplaceEach([ls EXCEPT ![match.row + 1] = new_line], matches, replacement, k - 1)

replace_all(sm, tb, search_term, replacement) ==
    LET matches == find_all_matches(sm, tb, search_term)
        sm1 == [sm EXCEPT !.last_search = search_term]
    IN IF matches = <<>> THEN SRes(sm1, tb, RetInt(0), "none")
       ELSE SRes([sm1 EXCEPT !.current_matches = <<>>, !.current_match_index = -1],
                 [tb EXCEPT !.lines = ReplaceEach(tb.lines, matches, replacement, Len(matches)),
                            !.modified = TRUE],
                 RetInt(Len(matches)), "none")

get_match_info(sm) ==
    IF sm.current_match_index >= 0 /\ sm.current_match_index < Len(sm.current_matches)
    THEN <<"info", sm.current_match_index + 1, Len(sm.current_matches),
           RetMatch(sm.current_matches[sm.current_match_index + 1])>>
    ELSE RetNone

----------------------------------------------------------------------------
(* Cursor *)

NewCursor == [row |-> 0, col |-> 0, desired_col |-> 0]

URes(cur, exc) == [cur |-> cur, raised |-> exc]

\* move_up that forgets the column it came from
move_up_resets_desired(cur, tb) ==
    IF cur.row > 0
    THEN LET c == Min(cur.desired_col, get_line_length(tb, cur.row - 1))
         IN URes([row |-> cur.row - 1, col |-> c, desired_col |-> c], "none")
    ELSE URes(cur, "none")

move_up(cur, tb) ==
    IF cur.row > 0
    THEN URes([cur EXCEPT !.row = cur.row - 1,
                          !.col = Min(cur.desired_col, get_line_length(tb, cur.row - 1))],
              "none")
    ELSE URes(cur, "none")

\* move_down that does not clamp the column to the new line
move_down_unclamped(cur, tb) ==
    IF cur.row < get_line_count(tb) - 1
    THEN URes([cur EXCEPT !.row = cur.row + 1, !.col = cur.desired_col], "none")
    ELSE URes(cur, "none")

move_down(cur, tb) ==
    IF cur.row < get_line_count(tb) - 1
    THEN URes([cur EXCEPT !.row = cur.row + 1,
                          !.col = Min(cur.desired_col, get_line_length(tb, cur.row + 1))],
              "none")
    ELSE URes(cur, "none")

move_left(cur, tb) ==
    LET c1 == IF cur.col > 0 THEN [cur EXCEPT !.col = cur.col - 1]
              ELSE IF cur.row > 0
              THEN [cur EXCEPT !.row = cur.row - 1, !.col = get_line_length(tb, cur.row - 1)]
              ELSE cur
    IN URes([c1 EXCEPT !.desired_col = c1.col], "none")

move_right(cur, tb) ==
    LET line_length == get_line_length(tb, cur.row)
        c1 == IF cur.col < line_length THEN [cur EXCEPT !.col = cur.col + 1]
              ELSE IF cur.row < get_line_count(tb) - 1
              THEN [cur EXCEPT !.row = cur.row + 1, !.col = 0]
              ELSE cur
    IN URes([c1 EXCEPT !.desired_col = c1.col], "none")

move_to_line_start(cur) == URes([cur EXCEPT !.col = 0, !.desired_col = 0], "none")

move_to_line_end(cur, tb) ==
    URes([cur EXCEPT !.col = get_line_length(tb, cur.row),
                     !.desired_col = get_line_length(tb, cur.row)], "none")

IsKind(kind, ch) == IF kind = "alnum" THEN isalnum(ch) ELSE isspace(ch)

\* while col < len(line) and line[col] is of the kind: col += 1
RECURSIVE SkipForward(_, _, _)
SkipForward(line, col, kind) ==
    IF col < Len(line)
    THEN IF ~InRange(line, col) THEN [col |-> col, ok |-> FALSE]
         ELSE IF IsKind(kind, PyGet(line, col)) THEN SkipForward(line, col + 1, kind)
         ELSE [col |-> col, ok |-> TRUE]
    ELSE [col |-> col, ok |-> TRUE]

\* while col > 0 and line[col - back] is of the kind: col -= 1
RECURSIVE SkipBackward(_, _, _, _)
SkipBackward(line, col, kind, back) ==
    IF col > 0
    THEN IF ~InRange(line, col - back) THEN [col |-> col, ok |-> FALSE]
         ELSE IF IsKind(kind, PyGet(line, col - back)) THEN SkipBackward(line, col - 1, kind, back)
         ELSE [col |-> col, ok |-> TRUE]
    ELSE [col |-> col, ok |-> TRUE]

move_word_forward(cur, tb) ==
    LET line == get_line(tb, cur.row)
        word == SkipForward(line, cur.col, "alnum")
        space == SkipForward(line, word.col, "space")
    IN IF ~word.ok THEN URes([cur EXCEPT !.col = word.col], "IndexError")
       ELSE IF ~space.ok THEN URes([cur EXCEPT !.col = space.col], "IndexError")
       ELSE IF space.col >= Len(line) /\ cur.row < get_line_count(tb) - 1
       THEN URes([cur EXCEPT !.row = cur.row + 1, !.col = 0, !.desired_col = 0], "none")
       ELSE URes([cur EXCEPT !.col = space.col, !.desired_col = space.col], "none")

move_word_backward(cur, tb) ==
    IF cur.col > 0
    THEN LET line == get_line(tb, cur.row)
             space == SkipBackward(line, cur.col - 1, "space", 0)
             word == SkipBackward(line, space.col, "alnum", 1)
         IN IF ~space.ok THEN URes([cur EXCEPT !.col = space.col], "IndexError")
            ELSE IF ~word.ok THEN URes([cur EXCEPT !.col = word.col], "IndexError")
            ELSE URes([cur EXCEPT !.col = word.col, !.desired_col = word.col], "none")
    ELSE IF cur.row > 0
    THEN URes([cur EXCEPT !.row = cur.row - 1,
                          !.col = get_line_length(tb, cur.row - 1),
                          !.desired_col = get_line_length(tb, cur.row - 1)], "none")
    ELSE URes([cur EXCEPT !.desired_col = cur.col], "none")

\* only the upper ends of the ranges are enforced
clamp_to_buffer_upper_only(cur, tb) ==
    LET max_row == Max(0, get_line_count(tb) - 1)
        r == Min(cur.row, max_row)
        c == Min(cur.col, get_line_length(tb, r))
    IN URes([row |-> r, col |-> c, desired_col |-> c], "none")

clamp_to_buffer(cur, tb) ==
    LET max_row == Max(0, get_line_count(tb) - 1)
        r == Max(0, Min(cur.row, max_row))
        c == Max(0, Min(cur.col, get_line_length(tb, r)))
    IN URes([row |-> r, col |-> c, desired_col |-> c], "none")

set_position(cur, row, col) == URes([row |-> row, col |-> col, desired_col |-> col], "none")

----------------------------------------------------------------------------
(* SelectionManager *)

NewSelectionManager ==
    [is_selecting |-> FALSE, start_row |-> 0, start_col |-> 0, end_row |-> 0, end_col |-> 0]

start_selection(sel, row, col) ==
    [is_selecting |-> TRUE, start_row |-> row, start_col |-> col,
     end_row |-> row, end_col |-> col]

\* the active end moved whether or not a selection is active
update_selection_always(sel, row, col) == [sel EXCEPT !.end_row = row, !.end_col = col]

update_selection(sel, row, col) ==
    IF sel.is_selecting THEN [sel EXCEPT !.end_row = row, !.end_col = col] ELSE sel

end_selection(sel) == [sel EXCEPT !.is_selecting = FALSE]

clear_selection(sel) == NewSelectionManager

has_selection(sel) ==
    sel.is_selecting /\ (sel.start_row # sel.end_row \/ sel.start_col # sel.end_col)

RetBounds(sr, sc, er, ec) == <<"bounds", sr, sc, er, ec>>

\* the bounds taken as stored, anchor first
get_selection_bounds_unordered(sel) ==
    IF ~has_selection(sel) THEN RetNone
    ELSE RetBounds(sel.start_row, sel.start_col, sel.end_row, sel.end_col)

get_selection_bounds(sel) ==
    IF ~has_selection(sel) THEN RetNone
    ELSE IF \/ sel.start_row < sel.end_row
            \/ (sel.start_row = sel.end_row /\ sel.start_col <= sel.end_col)
    THEN RetBounds(sel.start_row, sel.start_col, sel.end_row, sel.end_col)
    ELSE RetBounds(sel.end_row, sel.end_col, sel.start_row, sel.start_col)

\* the end column counted as selected
is_position_selected_closed(sel, row, col) ==
    LET bounds == get_selection_bounds(sel)
    IN IF bounds = RetNone THEN FALSE
       ELSE IF row < bounds[2] \/ row > bounds[4] THEN FALSE
       ELSE IF row = bounds[2] /\ row = bounds[4] THEN bounds[3] <= col /\ col <= bounds[5]
       ELSE IF row = bounds[2] THEN col >= bounds[3]
       ELSE IF row = bounds[4] THEN col <= bounds[5]
       ELSE TRUE

is_position_selected(sel, row, col) ==
    LET bounds == get_selection_bounds(sel)
    IN IF bounds = RetNone THEN FALSE
       ELSE IF row < bounds[2] \/ row > bounds[4] THEN FALSE
       ELSE IF row = bounds[2] /\ row = bounds[4] THEN bounds[3] <= col /\ col < bounds[5]
       ELSE IF row = bounds[2] THEN col >= bounds[3]
       ELSE IF row = bounds[4] THEN col < bounds[5]
       ELSE TRUE

\* the selection after the call, what it returned, what it raised
SelRes(sel, rv, exc) == [sel |-> sel, ret |-> rv, raised |-> exc]

\* while start_col > 0 and line[start_col - 1].isalnum(): start_col -= 1
RECURSIVE WordStart(_, _)
WordStart(line, start_col) ==
    IF start_col > 0 /\ isalnum(PyGet(line, start_col - 1))
    THEN WordStart(line, start_col - 1) ELSE start_col

\* the end moved over one character at most
WordEnd_one_step(line, end_col) ==
    IF end_col < Len(line) /\ isalnum(PyGet(line, end_col)) THEN end_col + 1 ELSE end_col

\* while end_col < len(line) and line[end_col].isalnum(): end_col += 1
RECURSIVE WordEnd(_, _)
WordEnd(line, end_col) ==
    IF end_col < Len(line) /\ isalnum(PyGet(line, end_col))
    THEN WordEnd(line, end_col + 1) ELSE end_col

select_word_at_position(sel, tb, row, col) ==
    LET line == get_line(tb, row)
    IN IF col >= Len(line) THEN SelRes(sel, RetBool(FALSE), "none")
       ELSE IF ~InRange(line, col) THEN SelRes(sel, RetNone, "IndexError")
       ELSE LET start_col == WordStart(line, col)
                end_col == WordEnd(line, col)
            IN IF start_col = end_col THEN SelRes(sel, RetBool(FALSE), "none")
               ELSE SelRes(update_selection(start_selection(sel, row, start_col), row, end_col),
                           RetBool(TRUE), "none")

select_all(sel, tb) ==
    LET last_row == get_line_count(tb) - 1
        last_col == get_line_length(tb, last_row)
    IN update_selection(start_selection(sel, 0, 0), last_row, last_col)

\* the part of the last line left out of a multi-line text
get_selected_text_without_last(sel, tb) ==
    LET bounds == get_selection_bounds(sel)
    IN IF bounds = RetNone THEN <<>>
       ELSE IF bounds[2] = bounds[4]
       THEN PySlice(get_line(tb, bounds[2]), bounds[3], bounds[5])
       ELSE join(<<SliceFrom(get_line(tb, bounds[2]), bounds[3])>>
                 \o LinesInRange(tb, bounds[2] + 1, bounds[4]))

\* the text returned, as a sequence of characters
get_selected_text(sel, tb) ==
    LET bounds == get_selection_bounds(sel)
    IN IF bounds = RetNone THEN <<>>
       ELSE IF bounds[2] = bounds[4]
       THEN PySlice(get_line(tb, bounds[2]), bounds[3], bounds[5])
       ELSE join(<<SliceFrom(get_line(tb, bounds[2]), bounds[3])>>
                 \o LinesInRange(tb, bounds[2] + 1, bounds[4])
                 \o <<SliceTo(get_line(tb, bounds[4]), bounds[5])>>)

\* the whole line captured instead of the word
copy_word_at_cursor_whole_line(cb, tb, cur) ==
    LET line == get_line(tb, cur.row)
    IN IF cur.col >= Len(line) THEN CRes(cb, tb, RetBool(FALSE), "none")
       ELSE IF ~InRange(line, cur.col) THEN CRes(cb, tb, RetNone, "IndexError")
       ELSE LET start_col == WordStart(line, cur.col)
                end_col == WordEnd(line, cur.col)
            IN IF start_col = end_col THEN CRes(cb, tb, RetBool(FALSE), "none")
               ELSE CRes([clipboard_lines |-> <<line>>, is_line_mode |-> FALSE],
                         tb, RetBool(TRUE), "none")

copy_word_at_cursor(cb, tb, cur) ==
    LET line == get_line(tb, cur.row)
    IN IF cur.col >= Len(line) THEN CRes(cb, tb, RetBool(FALSE), "none")
       ELSE IF ~InRange(line, cur.col) THEN CRes(cb, tb, RetNone, "IndexError")
       ELSE LET start_col == WordStart(line, cur.col)
                end_col == WordEnd(line, cur.col)
            IN IF start_col = end_col THEN CRes(cb, tb, RetBool(FALSE), "none")
               ELSE CRes([clipboard_lines |-> <<PySlice(line, start_col, end_col)>>,
                          is_line_mode |-> FALSE],
                         tb, RetBool(TRUE), "none")

----------------------------------------------------------------------------
(* Editor: the key dispatch over the text buffer and the cursor *)

\* the buffer and the cursor after the call, what it raised
ERes(tb, cur, exc) == [tb |-> tb, cur |-> cur, raised |-> exc]

\* the keys with 32 <= key <= 126, each named by its character
PrintableKeys == {"a", "b", " ", "."}

\* the character inserted with the cursor left where it was
type_char_stays(tb, cur, ch) ==
    LET ins == insert_char(tb, cur.row, cur.col, <<ch>>)
    IN ERes(ins.tb, cur, ins.raised)

\* insert_char(cursor.row, cursor.col, ch); cursor.move_right(text_buffer)
type_char(tb, cur, ch) ==
    LET ins == insert_char(tb, cur.row, cur.col, <<ch>>)
    IN IF ins.raised # "none" THEN ERes(ins.tb, cur, ins.raised)
       ELSE ERes(ins.tb, move_right(cur, ins.tb).cur, "none")

\* for _ in range(n): a space typed at the cursor; n is 4 in insert_tab
RECURSIVE insert_tab(_, _, _)
insert_tab(tb, cur, n) ==
    IF n <= 0 THEN ERes(tb, cur, "none")
    ELSE LET typed == type_char(tb, cur, " ")
         IN IF typed.raised # "none" THEN typed ELSE insert_tab(typed.tb, typed.cur, n - 1)

RECURSIVE page_up(_, _, _)
page_up(cur, tb, text_height) ==
    IF text_height <= 0 THEN cur ELSE page_up(move_up(cur, tb).cur, tb, text_height - 1)

RECURSIVE page_down(_, _, _)
page_down(cur, tb, text_height) ==
    IF text_height <= 0 THEN cur ELSE page_down(move_down(cur, tb).cur, tb, text_height - 1)

\* row, col = <the call>; cursor.set_position(row, col)
MovedTo(res, cur) ==
    IF res.raised # "none" THEN ERes(res.tb, cur, res.raised)
    ELSE ERes(res.tb, set_position(cur, res.ret[2], res.ret[3]).cur, "none")

\* text_height: the height of the text area of the display
handle_key_input(tb, cur, key, text_height) ==
    LET handled ==
            CASE key = "KEY_UP" -> ERes(tb, move_up(cur, tb).cur, move_up(cur, tb).raised)
              [] key = "KEY_DOWN" -> ERes(tb, move_down(cur, tb).cur, move_down(cur, tb).raised)
              [] key = "KEY_LEFT" -> ERes(tb, move_left(cur, tb).cur, move_left(cur, tb).raised)
              [] key = "KEY_RIGHT" -> ERes(tb, move_right(cur, tb).cur, move_right(cur, tb).raised)
              [] key = "KEY_HOME" -> ERes(tb, move_to_line_start(cur).cur, move_to_line_start(cur).raised)
              [] key = "KEY_END" -> ERes(tb, move_to_line_end(cur, tb).cur, move_to_line_end(cur, tb).raised)
              [] key = "KEY_PPAGE" -> ERes(tb, page_up(cur, tb, text_height), "none")
              [] key = "KEY_NPAGE" -> ERes(tb, page_down(cur, tb, text_height), "none")
              [] key = "Enter" -> MovedTo(insert_line(tb, cur.row, cur.col), cur)
              [] key = "KEY_BACKSPACE" -> MovedTo(backspace_char(tb, cur.row, cur.col), cur)
              [] key = "KEY_DC" ->
                    LET res == delete_char(tb, cur.row, cur.col)
                    IN ERes(res.tb, cur, res.raised)
              [] key = "Tab" -> insert_tab(tb, cur, 4)
              [] key \in PrintableKeys -> type_char(tb, cur, key)
              [] OTHER -> ERes(tb, cur, "none")
    IN IF handled.raised # "none" THEN handled
       ELSE ERes(handled.tb, clamp_to_buffer(handled.cur, handled.tb).cur, "none")

----------------------------------------------------------------------------
(* Inputs *)

\* the buffer stays within the bound of the model
Bounded(tb) == Len(join(tb.lines)) <= MaxDoc /\ Len(tb.lines) <= MaxDoc + 1

\* rows and columns in and just outside the buffer
RowArgs(tb) == -1..Len(tb.lines)
ColArgs(tb, r) == -1..(get_line_length(tb, r) + 1)
\* the valid Positions of the buffer
ValidPosition(tb, r, c) ==
    /\ 0 <= r /\ r < get_line_count(tb)
    /\ 0 <= c /\ c <= get_line_length(tb, r)
Positions(tb) ==
    {p \in (0..(Len(tb.lines) - 1)) \X (0..MaxDoc) : ValidPosition(tb, p[1], p[2])}

Snapshot ==
    [text_buffer |-> text_buffer, cursor |-> cursor, clipboard_manager |-> clipboard_manager,
     search_manager |-> search_manager, selection_manager |-> selection_manager]

----------------------------------------------------------------------------
(* The operations as actions on the objects *)

Returns(res) == ret' = res.ret /\ raised' = res.raised

BufferStep(res) ==
    /\ text_buffer' = res.tb
    /\ Returns(res)
    /\ UNCHANGED <<cursor, clipboard_manager, search_manager, selection_manager, disk, replaced>>

ClipboardStep(res) ==
    /\ text_buffer' = res.tb
    /\ clipboard_manager' = res.cb
    /\ Returns(res)
    /\ UNCHANGED <<cursor, search_manager, selection_manager, disk, replaced>>

SearchStep(res, rep) ==
    /\ text_buffer' = res.tb
    /\ search_manager' = res.sm
    /\ replaced' = rep
    /\ Returns(res)
    /\ UNCHANGED <<cursor, clipboard_manager, selection_manager, disk>>

CursorStep(res) ==
    /\ cursor' = res.cur
    /\ ret' = RetNone
    /\ raised' = res.raised
    /\ UNCHANGED <<text_buffer, clipboard_manager, search_manager, selection_manager,
                   disk, replaced>>

SelectionStep(sel, rv) ==
    /\ selection_manager' = sel
    /\ ret' = rv
    /\ raised' = "none"
    /\ UNCHANGED <<text_buffer, cursor, clipboard_manager, search_manager, disk, replaced>>

LoadFile(readable, content) == BufferStep(load_file(text_buffer, "f", readable, content))

SaveFile(filename, io, n) ==
    LET res == save_file(text_buffer, disk, filename, io, n)
    IN /\ text_buffer' = res.tb
       /\ disk' = res.disk
       /\ Returns(res)
       /\ UNCHANGED <<cursor, clipboard_manager, search_manager, selection_manager, replaced>>

InsertChar(r, c, ch) == BufferStep(insert_char(text_buffer, r, c, <<ch>>))
DeleteChar(r, c) == BufferStep(delete_char(text_buffer, r, c))
BackspaceChar(r, c) == BufferStep(backspace_char(text_buffer, r, c))
InsertLine(r, c) == BufferStep(insert_line(text_buffer, r, c))

CopyText(sr, sc, er, ec) ==
    ClipboardStep(CRes(copy_text(clipboard_manager, text_buffer, sr, sc, er, ec),
                       text_buffer, RetNone, "none"))
CopyWordAtCursor == ClipboardStep(copy_word_at_cursor(clipboard_manager, text_buffer, cursor))
CopyLine(r) ==
    ClipboardStep(CRes(copy_line(clipboard_manager, text_buffer, r),
                       text_buffer, RetNone, "none"))
CutText(sr, sc, er, ec) ==
    ClipboardStep(cut_text(clipboard_manager, text_buffer, sr, sc, er, ec))
CutLine(r) == ClipboardStep(cut_line(clipboard_manager, text_buffer, r))
PasteText(r, c) == ClipboardStep(paste_text(clipboard_manager, text_buffer, r, c))

Search(term, r, c) == SearchStep(search(search_manager, text_buffer, term, r, c), {})
FindNext == SearchStep(find_next(search_manager, text_buffer), replaced)
FindPrevious == SearchStep(find_previous(search_manager, text_buffer), replaced)
ReplaceCurrent(repl) ==
    LET res == replace_current(search_manager, text_buffer, repl)
    IN SearchStep(res, IF res.ret = RetBool(TRUE)
                       THEN replaced \cup {search_manager.current_match_index}
                       ELSE replaced)
ReplaceAll(term, repl) ==
    LET res == replace_all(search_manager, text_buffer, term, repl)
    IN SearchStep(res, IF res.sm.current_matches = <<>> THEN {} ELSE replaced)

MoveUp == CursorStep(move_up(cursor, text_buffer))
MoveDown == CursorStep(move_down(cursor, text_buffer))
MoveLeft == CursorStep(move_left(cursor, text_buffer))
MoveRight == CursorStep(move_right(cursor, text_buffer))
ClampToBuffer == CursorStep(clamp_to_buffer(cursor, text_buffer))
SetPosition(r, c) == CursorStep(set_position(cursor, r, c))
MoveToLineStart == CursorStep(move_to_line_start(cursor))
MoveToLineEnd == CursorStep(move_to_line_end(cursor, text_buffer))
MoveWordForward == CursorStep(move_word_forward(cursor, text_buffer))
MoveWordBackward == CursorStep(move_word_backward(cursor, text_buffer))

StartSelection(r, c) == SelectionStep(start_selection(selection_manager, r, c), RetNone)
UpdateSelection(r, c) == SelectionStep(update_selection(selection_manager, r, c), RetNone)
EndSelection == SelectionStep(end_selection(selection_manager), RetNone)
ClearSelection == SelectionStep(clear_selection(selection_manager), RetNone)
GetSelectionBounds ==
    SelectionStep(selection_manager, get_selection_bounds(selection_manager))
HandleKeyInput(key, text_height) ==
    LET res == handle_key_input(text_buffer, cursor, key, text_height)
    IN /\ text_buffer' = res.tb
       /\ cursor' = res.cur
       /\ ret' = RetNone
       /\ raised' = res.raised
       /\ UNCHANGED <<clipboard_manager, search_manager, selection_manager, disk, replaced>>
SelectAll == SelectionStep(select_all(selection_manager, text_buffer), RetNone)
GetSelectedText ==
    SelectionStep(selection_manager, <<"str", get_selected_text(selection_manager, text_buffer)>>)
SelectWordAtPosition(r, c) ==
    LET res == select_word_at_position(selection_manager, text_buffer, r, c)
    IN /\ selection_manager' = res.sel
       /\ Returns(res)
       /\ UNCHANGED <<text_buffer, cursor, clipboard_manager, search_manager, disk, replaced>>
FindAllMatches(term) ==
    /\ ret' = <<"matches", find_all_matches(search_manager, text_buffer, term)>>
    /\ raised' = "none"
    /\ UNCHANGED <<text_buffer, cursor, clipboard_manager, search_manager, selection_manager,
                   disk, replaced>>
IsPositionSelected(r, c) ==
    SelectionStep(selection_manager, RetBool(is_position_selected(selection_manager, r, c)))

----------------------------------------------------------------------------
(* Spec: one session of calls on freshly constructed objects *)

Chars == {"a", LF}
Terms == {<<"a">>}
Replacements == {<<>>, <<"a", "a">>, <<LF>>}
FileContents == Strings(Chars, MaxDoc)
Filenames == {NoneVal, "f"}

\* the objects other than the buffer as constructed
FreshManagers ==
    /\ clipboard_manager = NewClipboardManager
    /\ search_manager = NewSearchManager
    /\ selection_manager = NewSelectionManager
    /\ ret = RetNone
    /\ raised = "none"
    /\ replaced = {}
    /\ pc = 0
    /\ args = <<>>

Fresh ==
    /\ text_buffer = NewTextBuffer
    /\ cursor = NewCursor
    /\ disk = [exists |-> FALSE, content |-> <<>>]
    /\ FreshManagers

\* a file over the characters cs has just been opened
Opened(cs) ==
    /\ \E content \in Strings(cs \cup {LF}, MaxDoc) :
          /\ text_buffer = load_file(NewTextBuffer, "f", TRUE, content).tb
          /\ disk = [exists |-> TRUE, content |-> content]
    /\ FreshManagers

Init == Fresh /\ orig = Snapshot

\* one more call of the session
Call(A) ==
    pc < MaxCalls /\ pc' = pc + 1 /\ UNCHANGED <<args, orig>> /\ A /\ Bounded(text_buffer')

Next ==
    \/ \E readable \in BOOLEAN, content \in FileContents : Call(LoadFile(readable, content))
    \/ \E filename \in Filenames, io \in {"ok", "open", "write"} : Call(SaveFile(filename, io, 0))
    \/ \E r \in RowArgs(text_buffer) : \E c \in ColArgs(text_buffer, r), ch \in Chars :
          Call(InsertChar(r, c, ch))
    \/ \E r \in RowArgs(text_buffer) : \E c \in ColArgs(text_buffer, r) : Call(DeleteChar(r, c))
    \/ \E r \in RowArgs(text_buffer) : \E c \in ColArgs(text_buffer, r) : Call(BackspaceChar(r, c))
    \/ \E r \in RowArgs(text_buffer) : \E c \in ColArgs(text_buffer, r) : Call(InsertLine(r, c))
    \/ \E sr \in RowArgs(text_buffer), er \in RowArgs(text_buffer) :
          \E sc \in ColArgs(text_buffer, sr), ec \in ColArgs(text_buffer, er) :
             Call(CutText(sr, sc, er, ec))
    \/ \E r \in RowArgs(text_buffer) : Call(CutLine(r))
    \/ \E r \in RowArgs(text_buffer) : \E c \in ColArgs(text_buffer, r) : Call(PasteText(r, c))
    \/ \E term \in Terms : Call(Search(term, 0, 0))
    \/ Call(FindNext)
    \/ Call(FindPrevious)
    \/ \E repl \in Replacements : Call(ReplaceCurrent(repl))
    \/ \E term \in Terms, repl \in Replacements : Call(ReplaceAll(term, repl))

Spec == Init /\ [][Next]_vars

\* C1: in every state reachable from a fresh TextBuffer by load_file, insert_char,
\* delete_char, backspace_char, insert_line, cut_text, cut_line, paste_text,
\* replace_current and replace_all, the buffer has at least one line.
C1_LineCountAtLeastOne == get_line_count(text_buffer) >= 1

\* C8: no core operation raises an exception because of an out-of-range row or col:
\* whatever the integer arguments, the call returns normally.
C8_NoIndexError == raised # "IndexError"

\* C9: whenever load_file or save_file fails (no filename known, or an I/O failure),
\* lines, filename and the modified flag are what they were before the call.
C9_FailedFileCallChangesNothing ==
    [][raised' \in {"IOError", "ValueError"} => text_buffer' = text_buffer]_vars

----------------------------------------------------------------------------
(* SpecCursor: the movements of a cursor over an opened file that is not edited *)

CursorChars == {"a", " ", "."}

\* the cursor has been put on a valid Position
CursorPlaced ==
    \E p \in Positions(text_buffer) : cursor = set_position(NewCursor, p[1], p[2]).cur

InitCursor == Opened(CursorChars) /\ CursorPlaced /\ orig = Snapshot

Still == UNCHANGED <<pc, args, orig>>

NextCursor ==
    \/ MoveUp /\ Still
    \/ MoveDown /\ Still
    \/ MoveLeft /\ Still
    \/ MoveRight /\ Still
    \/ MoveToLineStart /\ Still
    \/ MoveToLineEnd /\ Still
    \/ MoveWordForward /\ Still
    \/ MoveWordBackward /\ Still

SpecCursor == InitCursor /\ [][NextCursor]_vars

\* C2: from a valid cursor Position, with the buffer not mutated, every sequence of
\* move_up, move_down, move_left, move_right, move_to_line_start, move_to_line_end,
\* move_word_forward and move_word_backward leaves the cursor on a valid Position.
C2_MovesKeepCursorValid == ValidPosition(text_buffer, cursor.row, cursor.col)

\* a vertical move has clamped the column to a shorter line
C2_Witness ==
    /\ cursor.row # orig.cursor.row
    /\ cursor.col = get_line_length(text_buffer, cursor.row)
    /\ cursor.col < cursor.desired_col

----------------------------------------------------------------------------
(* SpecSticky: vertical movements only *)

NextSticky ==
    \/ MoveUp /\ Still
    \/ MoveDown /\ Still

SpecSticky == InitCursor /\ [][NextSticky]_vars

\* C7: from a valid (r, c) with desired_col = c, every sequence of move_up and
\* move_down keeps desired_col = c and col = min(c, length of the cursor's line);
\* back on row r the column is c again.
C7_StickyColumn ==
    /\ cursor.desired_col = orig.cursor.col
    /\ cursor.col = Min(orig.cursor.col, get_line_length(text_buffer, cursor.row))
    /\ (cursor.row = orig.cursor.row => cursor.col = orig.cursor.col)

\* the cursor is on a line shorter than the column it started from
C7_Witness ==
    /\ cursor.row # orig.cursor.row
    /\ cursor.col < orig.cursor.col
    /\ cursor.desired_col = orig.cursor.col

----------------------------------------------------------------------------
(* SpecReplace: a search, then navigation and single replacements *)

SearchChars == {"a", "b"}
SearchTerms == {<<"a">>, <<"a", "b">>}
SearchReplacements == {<<>>, <<"b">>, <<"a", "a">>}

InitReplace == Opened(SearchChars) /\ cursor = NewCursor /\ orig = Snapshot

NextReplace ==
    \/ \E term \in SearchTerms, p \in Positions(text_buffer) :
          pc = 0 /\ Call(Search(term, p[1], p[2]))
    \/ pc > 0 /\ Call(FindNext)
    \/ pc > 0 /\ Call(FindPrevious)
    \/ \E repl \in SearchReplacements : pc > 0 /\ Call(ReplaceCurrent(repl))

SpecReplace == InitReplace /\ [][NextReplace]_vars

\* the match still designates the text it recorded
Designates(tb, m) ==
    /\ 0 <= m.row /\ m.row < get_line_count(tb)
    /\ PySlice(get_line(tb, m.row), m.col, m.col + m.length) = m.text

\* C3: after search(), under any sequence of find_next, find_previous and
\* replace_current, every match of the list that has not itself been replaced still
\* designates its snapshot text: line[row][col : col+length] == text.
C3_UnreplacedMatchesDesignateText ==
    \A i \in 1..Len(search_manager.current_matches) :
        (i - 1) \notin replaced => Designates(text_buffer, search_manager.current_matches[i])

----------------------------------------------------------------------------
(* SpecCutPaste: a span is cut and pasted back where it started *)

ClipChars == {"a", "b"}

\* p is before q in document order
Before(p, q) == p[1] < q[1] \/ (p[1] = q[1] /\ p[2] < q[2])

\* the normalized valid spans <<start_row, start_col, end_row, end_col>>
Spans(tb) ==
    {<<p[1], p[2], q[1], q[2]>> : <<p, q>> \in
        {pq \in Positions(tb) \X Positions(tb) : ~Before(pq[2], pq[1])}}

InitCutPaste == Opened(ClipChars) /\ cursor = NewCursor /\ orig = Snapshot

NextCutPaste ==
    \/ \E sp \in Spans(text_buffer) :
          /\ pc = 0
          /\ CutText(sp[1], sp[2], sp[3], sp[4])
          /\ args' = sp /\ pc' = 1 /\ UNCHANGED orig
    \/ /\ pc = 1
       /\ PasteText(args[1], args[2])
       /\ pc' = 2 /\ UNCHANGED <<args, orig>>
    \/ \E r \in 0..(get_line_count(text_buffer) - 1) :
          /\ pc = 0
          /\ CutLine(r)
          /\ args' = <<r>> /\ pc' = 4 /\ UNCHANGED orig
    \/ \E sp \in Spans(text_buffer) :
          /\ pc \in {0, 4}
          /\ CopyText(sp[1], sp[2], sp[3], sp[4])
          /\ args' = sp /\ pc' = 3 /\ orig' = Snapshot

SpecCutPaste == InitCutPaste /\ [][NextCutPaste]_vars

\* C4: cut_text of a normalized valid span followed by paste_text with the cursor at
\* (start_row, start_col) reproduces the original lines, and paste_text returns
\* (end_row, end_col).
C4_CutPasteRoundTrip ==
    pc = 2 => /\ text_buffer.lines = orig.text_buffer.lines
              /\ ret = RetPos(args[3], args[4])

\* a span that starts inside one line and ends on a later one was cut and pasted back
C4_Witness == pc = 2 /\ args[1] < args[3] /\ args[2] > 0 /\ raised = "none"

----------------------------------------------------------------------------
(* SpecReplaceAll: one replace_all on an opened file *)

FoldChars == {"a", "A", "b"}
FoldTerms == {<<"a">>, <<"A">>, <<"a", "a">>, <<"a", "b">>}
FoldReplacements == {<<>>, <<"a">>, <<"A">>, <<"b">>, <<"b", "b">>}

InitReplaceAll ==
    /\ Opened(FoldChars) /\ cursor = NewCursor /\ orig = Snapshot

NextReplaceAll ==
    \E term \in FoldTerms, repl \in FoldReplacements :
        /\ pc = 0
        /\ ReplaceAll(term, repl)
        /\ args' = <<term, repl>> /\ pc' = 1 /\ UNCHANGED orig

SpecReplaceAll == InitReplaceAll /\ [][NextReplaceAll]_vars

\* t occurs in x the way the search compares them
Contains(x, t, case_sensitive) ==
    \E i \in 0..(Len(x) - Len(t)) :
        \A j \in 1..Len(t) :
            IF case_sensitive THEN x[i + j] = t[j] ELSE lower(x[i + j]) = lower(t[j])

\* no character of x equals a character of t the way the search compares them
NoCommonChar(x, t, case_sensitive) ==
    \A i \in 1..Len(x), j \in 1..Len(t) :
        IF case_sensitive THEN x[i] # t[j] ELSE lower(x[i]) # lower(t[j])

\* C5 as stated: when the replacement X does not itself contain term, replace_all
\* followed by find_all_matches for term returns an empty list.
C5_NoMatchLeftIfNotContained ==
    (pc = 1 /\ ~Contains(args[2], args[1], search_manager.case_sensitive))
        => find_all_matches(search_manager, text_buffer, args[1]) = <<>>

\* C5 as amended: when X is not empty and has no character in common with term
\* (compared the way the search compares), replace_all followed by find_all_matches
\* for term returns an empty list.
C5_NoMatchLeftIfDisjoint ==
    (pc = 1 /\ args[2] # <<>>
            /\ NoCommonChar(args[2], args[1], search_manager.case_sensitive))
        => find_all_matches(search_manager, text_buffer, args[1]) = <<>>

\* two or more matches were replaced by a text sharing no character with the term
C5_Witness ==
    /\ pc = 1 /\ args[2] # <<>>
    /\ NoCommonChar(args[2], args[1], search_manager.case_sensitive)
    /\ ret[1] = "int" /\ ret[2] >= 2

----------------------------------------------------------------------------
(* SpecSplitJoin: a line is split and joined again *)

InitSplitJoin == Opened(ClipChars) /\ cursor = NewCursor /\ orig = Snapshot

NextSplitJoin ==
    \/ \E p \in Positions(text_buffer) :
          /\ pc = 0
          /\ InsertLine(p[1], p[2])
          /\ args' = p /\ pc' = 1 /\ UNCHANGED orig
    \/ /\ pc = 1
       /\ BackspaceChar(ret[2], ret[3])
       /\ pc' = 2 /\ UNCHANGED <<args, orig>>

SpecSplitJoin == InitSplitJoin /\ [][NextSplitJoin]_vars

\* C6: for every valid row and col, insert_line(row, col) followed by backspace_char
\* at the position insert_line returned restores the original lines, and
\* backspace_char returns (row, col).
C6_SplitJoinInverse ==
    pc = 2 => /\ text_buffer.lines = orig.text_buffer.lines
              /\ ret = RetPos(args[1], args[2])

\* a line that is not the last was split strictly inside and joined again
C6_Witness ==
    /\ pc = 2
    /\ args[1] < get_line_count(text_buffer) - 1
    /\ 0 < args[2] /\ args[2] < get_line_length(text_buffer, args[1])

----------------------------------------------------------------------------
(* SpecSelection: the selection operations, any endpoints *)

SelArgs == (0..MaxSel) \X (0..MaxSel)

InitSelection == Fresh /\ orig = Snapshot

NextSelection ==
    \/ \E p \in SelArgs : StartSelection(p[1], p[2]) /\ Still
    \/ \E p \in SelArgs : UpdateSelection(p[1], p[2]) /\ Still
    \/ EndSelection /\ Still
    \/ ClearSelection /\ Still
    \/ GetSelectionBounds /\ Still
    \/ \E p \in SelArgs : IsPositionSelected(p[1], p[2]) /\ args' = p /\ UNCHANGED <<pc, orig>>

SpecSelection == InitSelection /\ [][NextSelection]_vars

Swapped(sel) ==
    [sel EXCEPT !.start_row = sel.end_row, !.start_col = sel.end_col,
                !.end_row = sel.start_row, !.end_col = sel.start_col]

\* C10: get_selection_bounds returns None exactly when has_selection() is false, that
\* is when the selection is not active or anchor = active; otherwise it returns
\* (start, end) = (min, max) of anchor and active by row then col, so start < end,
\* and the result is the same with anchor and active swapped.
C10_SelectionBounds ==
    LET sel == selection_manager
        anchor == <<sel.start_row, sel.start_col>>
        active == <<sel.end_row, sel.end_col>>
        lo == IF Before(active, anchor) THEN active ELSE anchor
        hi == IF Before(active, anchor) THEN anchor ELSE active
        b == get_selection_bounds(sel)
    IN /\ (b = RetNone) <=> ~has_selection(sel)
       /\ (b = RetNone) <=> (~sel.is_selecting \/ anchor = active)
       /\ b # RetNone => /\ b = RetBounds(lo[1], lo[2], hi[1], hi[2])
                         /\ Before(lo, hi)
       /\ get_selection_bounds(Swapped(sel)) = b

\* an active selection whose active end is before its anchor
C10_Witness ==
    /\ has_selection(selection_manager)
    /\ Before(<<selection_manager.end_row, selection_manager.end_col>>,
              <<selection_manager.start_row, selection_manager.start_col>>)
    /\ ret = get_selection_bounds(selection_manager)

\* C11: is_position_selected(row, col) is true exactly when has_selection() holds and
\* start <= (row, col) < end in (row, then col) order, (start, end) being
\* get_selection_bounds(); on the boundary lines this is the half-open rule: on a
\* single-line selection start_col <= col < end_col, on the first line of a longer one
\* col >= start_col, on its last line col < end_col, on lines between always.
C11_PositionSelected ==
    ret[1] = "bool" =>
        LET sel == selection_manager
            b == get_selection_bounds(sel)
            row == args[1]
            col == args[2]
            inside == /\ has_selection(sel)
                      /\ ~Before(args, <<b[2], b[3]>>)
                      /\ Before(args, <<b[4], b[5]>>)
            half_open == /\ has_selection(sel)
                         /\ b[2] <= row /\ row <= b[4]
                         /\ row = b[2] => col >= b[3]
                         /\ row = b[4] => col < b[5]
        IN (ret[2] <=> inside) /\ (ret[2] <=> half_open)

\* a position on the last line of a selection of several lines was found selected
C11_Witness ==
    /\ ret = RetBool(TRUE)
    /\ LET b == get_selection_bounds(selection_manager)
       IN b # RetNone /\ b[2] < b[4] /\ args[1] = b[4]

----------------------------------------------------------------------------
(* SpecDeselect: selections started, moved, ended and cleared; pc = 1 since the last
   end_selection or clear_selection not followed by start_selection; args is the
   last call and orig the state before it *)

Called(op) == args' = <<op>> /\ orig' = Snapshot

NextDeselect ==
    \/ \E p \in SelArgs : StartSelection(p[1], p[2]) /\ pc' = 0 /\ Called("start_selection")
    \/ \E p \in SelArgs : UpdateSelection(p[1], p[2]) /\ pc' = pc /\ Called("update_selection")
    \/ EndSelection /\ pc' = 1 /\ Called("end_selection")
    \/ ClearSelection /\ pc' = 1 /\ Called("clear_selection")

SpecDeselect == InitSelection /\ [][NextDeselect]_vars

\* the four endpoint coordinates
Endpoints(sel) == <<sel.start_row, sel.start_col, sel.end_row, sel.end_col>>

\* C12: once end_selection or clear_selection has been called, has_selection() is
\* false and stays false under end_selection, clear_selection and update_selection
\* until start_selection is called; update_selection while not active changes no
\* field, end_selection keeps the four endpoint coordinates, clear_selection resets
\* them to (0,0).
C12_DeselectedStaysDeselected ==
    LET sel == selection_manager
        before == orig.selection_manager
    IN /\ pc = 1 => ~has_selection(sel)
       /\ (args = <<"update_selection">> /\ ~before.is_selecting) => sel = before
       /\ args = <<"end_selection">> =>
              ~sel.is_selecting /\ Endpoints(sel) = Endpoints(before)
       /\ args = <<"clear_selection">> =>
              ~sel.is_selecting /\ Endpoints(sel) = <<0, 0, 0, 0>>

\* an ended selection with two different ends has been given an update
C12_Witness ==
    /\ pc = 1 /\ args = <<"update_selection">>
    /\ ~has_selection(selection_manager)
    /\ selection_manager.start_col # selection_manager.end_col

----------------------------------------------------------------------------
(* SpecSelectWord: a word is selected on an opened file, over an earlier selection
   or none *)

NextSelectWord ==
    \/ \E p \in SelArgs : pc = 0 /\ StartSelection(p[1], p[2]) /\ pc' = 1 /\ UNCHANGED <<args, orig>>
    \/ \E r \in RowArgs(text_buffer) : \E c \in 0..(get_line_length(text_buffer, r) + 1) :
          /\ pc < 2
          /\ SelectWordAtPosition(r, c)
          /\ args' = <<r, c>> /\ orig' = Snapshot /\ pc' = 2

SpecSelectWord == InitCursor /\ [][NextSelectWord]_vars

\* line[i] is an alphanumeric character of the line
AlnumAt(line, i) == 0 <= i /\ i < Len(line) /\ isalnum(PyGet(line, i))

\* the selection is the maximal run of alphanumeric characters [ws, we) of the row
SelectsRun(sel, row, line, ws, we) ==
    /\ sel.is_selecting
    /\ sel.start_row = row /\ sel.start_col = ws
    /\ sel.end_row = row /\ sel.end_col = we
    /\ 0 <= ws /\ ws < we /\ we <= Len(line)
    /\ \A i \in ws..(we - 1) : AlnumAt(line, i)
    /\ ~AlnumAt(line, ws - 1) /\ ~AlnumAt(line, we)

\* C13 as stated: select_word_at_position(buffer, row, col) returns false and leaves
\* the selection unchanged whenever col >= len(line[row]) or the character at col is
\* not alphanumeric; otherwise it returns true and the selection is the maximal run
\* of alphanumeric characters [word_start, word_end) of that row with
\* word_start <= col < word_end.
C13_SelectWordUnderCol ==
    pc = 2 =>
        LET sel == selection_manager
            row == args[1]
            col == args[2]
            line == get_line(text_buffer, row)
            no_word == col >= Len(line) \/ ~AlnumAt(line, col)
        IN /\ no_word => ret = RetBool(FALSE) /\ sel = orig.selection_manager
           /\ ~no_word =>
                 /\ ret = RetBool(TRUE)
                 /\ SelectsRun(sel, row, line, sel.start_col, sel.end_col)
                 /\ sel.start_col <= col /\ col < sel.end_col

\* C13 as amended: for col >= 0, select_word_at_position returns false and leaves the
\* selection unchanged whenever col >= len(line[row]) or neither the character at col
\* nor the character before col is alphanumeric; otherwise it returns true and the
\* selection is the maximal run of alphanumeric characters [word_start, word_end) of
\* that row with word_start <= col <= word_end, col = word_end when the character
\* at col is not alphanumeric.
C13_SelectWordAtOrBeforeCol ==
    pc = 2 =>
        LET sel == selection_manager
            row == args[1]
            col == args[2]
            line == get_line(text_buffer, row)
            no_word == col >= Len(line) \/ (~AlnumAt(line, col) /\ ~AlnumAt(line, col - 1))
        IN /\ raised = "none"
           /\ no_word => ret = RetBool(FALSE) /\ sel = orig.selection_manager
           /\ ~no_word =>
                 /\ ret = RetBool(TRUE)
                 /\ SelectsRun(sel, row, line, sel.start_col, sel.end_col)
                 /\ sel.start_col <= col /\ col <= sel.end_col
                 /\ (col = sel.end_col) <=> ~AlnumAt(line, col)

\* a word was selected from inside it, over an earlier selection
C13_Witness ==
    /\ pc = 2 /\ ret = RetBool(TRUE)
    /\ orig.selection_manager.is_selecting
    /\ selection_manager.start_col < args[2] /\ args[2] < selection_manager.end_col
    /\ selection_manager.end_col < get_line_length(text_buffer, args[1])

----------------------------------------------------------------------------
(* SpecCutPaste, the single calls: pc = 1 after cut_text, 3 after copy_text, 4 after
   cut_line; args are the arguments and orig the state before the call *)

\* line k (counted from 0) of the lines ls
Row(ls, k) == ls[k + 1]
\* the first n characters of a line, and the rest
Prefix(line, n) == SubSeq(line, 1, n)
Suffix(line, n) == SubSeq(line, n + 1, Len(line))

\* new is old without its rows first..last: n rows fewer, the others in order
RowsRemoved(old, new, first, last) ==
    /\ Len(new) = Len(old) - (last - first + 1)
    /\ \A k \in 0..(Len(new) - 1) :
          Row(new, k) = IF k < first THEN Row(old, k) ELSE Row(old, k + (last - first + 1))

\* C14: cut_text on a normalized valid span: a single-line span turns line[row] into
\* line[:start_col] + line[end_col:] and keeps the line count; a multi-line span turns
\* line[start_row] into first_line[:start_col] + last_line[end_col:], removes rows
\* start_row+1..end_row (end_row - start_row lines fewer) and keeps every line before
\* start_row and after end_row in order; modified is true afterwards.
C14_CutTextEffect ==
    pc = 1 =>
        LET old == orig.text_buffer.lines
            new == text_buffer.lines
            sr == args[1]
            sc == args[2]
            er == args[3]
            ec == args[4]
            combined == Prefix(Row(old, sr), sc) \o Suffix(Row(old, er), ec)
        IN /\ raised = "none"
           /\ text_buffer.modified
           /\ Len(new) = Len(old) - (er - sr)
           /\ Row(new, sr) = combined
           /\ RowsRemoved([old EXCEPT ![sr + 1] = combined], new, sr + 1, er)

\* a span of several lines was cut, with a line before it and a line after it
C14_Witness ==
    /\ pc = 1 /\ 0 < args[1] /\ args[1] < args[3]
    /\ args[3] < Len(orig.text_buffer.lines) - 1
    /\ get_line_count(text_buffer) >= 3

\* C15: copy_text on a normalized valid span sets the clipboard to
\* [line[start_col:end_col]] for a single-line span and to [first_line[start_col:]],
\* every full line strictly between, [last_line[:end_col]] for a multi-line span
\* (end_row - start_row + 1 fragments), with line_mode false, and changes neither the
\* buffer lines nor the modified flag.
C15_CopyTextEffect ==
    pc = 3 =>
        LET old == orig.text_buffer.lines
            clip == clipboard_manager.clipboard_lines
            sr == args[1]
            sc == args[2]
            er == args[3]
            ec == args[4]
        IN /\ ~clipboard_manager.is_line_mode
           /\ text_buffer = orig.text_buffer
           /\ Len(clip) = er - sr + 1
           /\ sr = er => clip[1] = Suffix(Prefix(Row(old, sr), ec), sc)
           /\ sr < er =>
                 /\ clip[1] = Suffix(Row(old, sr), sc)
                 /\ \A k \in (sr + 1)..(er - 1) : clip[k - sr + 1] = Row(old, k)
                 /\ clip[Len(clip)] = Prefix(Row(old, er), ec)

\* a span with a full line between its ends was copied over a line-mode clipboard
\* from a modified buffer
C15_Witness ==
    /\ pc = 3 /\ args[1] + 1 < args[3]
    /\ orig.clipboard_manager.is_line_mode
    /\ text_buffer.modified

\* C16: cut_line(row) for a valid row puts [line[row]] in the clipboard with line_mode
\* true and sets modified; with more than one line the line is removed (one line
\* fewer, the others in order); the only line becomes a single empty line.
C16_CutLineEffect ==
    pc = 4 =>
        LET old == orig.text_buffer.lines
            new == text_buffer.lines
            row == args[1]
        IN /\ raised = "none"
           /\ clipboard_manager = [clipboard_lines |-> <<Row(old, row)>>, is_line_mode |-> TRUE]
           /\ text_buffer.modified
           /\ Len(old) > 1 => RowsRemoved(old, new, row, row)
           /\ Len(old) = 1 => new = <<<<>>>>

\* a line that is neither the first nor the last was cut
C16_Witness ==
    /\ pc = 4 /\ 0 < args[1] /\ args[1] < get_line_count(text_buffer)
    /\ clipboard_manager.clipboard_lines # <<<<>>>>

----------------------------------------------------------------------------
(* SpecPaste: one paste_text at a valid position of an opened file, for every
   clipboard of up to MaxFrags fragments in either mode *)

Fragments == Strings({"b"}, 1)
Clipboards ==
    {[clipboard_lines |-> f, is_line_mode |-> m] :
        f \in UNION {[1..n -> Fragments] : n \in 0..MaxFrags}, m \in BOOLEAN}

InitPaste ==
    /\ \E content \in Strings({"a", LF}, MaxDoc) :
          /\ text_buffer = load_file(NewTextBuffer, "f", TRUE, content).tb
          /\ disk = [exists |-> TRUE, content |-> content]
    /\ clipboard_manager \in Clipboards
    /\ search_manager = NewSearchManager
    /\ selection_manager = NewSelectionManager
    /\ cursor = NewCursor
    /\ ret = RetNone /\ raised = "none" /\ replaced = {} /\ pc = 0 /\ args = <<>>
    /\ orig = Snapshot

NextPaste ==
    \E p \in Positions(text_buffer) :
        /\ pc = 0
        /\ PasteText(p[1], p[2])
        /\ args' = p /\ pc' = 1 /\ UNCHANGED orig

SpecPaste == InitPaste /\ [][NextPaste]_vars

\* new is old with the lines ins in place of its row r, the other rows in order
RowReplaced(old, new, r, ins) ==
    /\ Len(new) = Len(old) + Len(ins) - 1
    /\ \A k \in 0..(Len(new) - 1) :
          Row(new, k) = IF k < r THEN Row(old, k)
                        ELSE IF k < r + Len(ins) THEN ins[k - r + 1]
                        ELSE Row(old, k - Len(ins) + 1)

\* C17: paste_text in line mode with k >= 1 fragments and a valid cursor row r inserts
\* the fragments in clipboard order as whole lines at rows r..r+k-1, pushes the former
\* lines r.. down unchanged, leaves the lines before r unchanged, sets modified and
\* returns (r + k, 0), a valid Position of the resulting buffer; with an empty
\* clipboard it returns the input position and changes neither lines nor modified.
C17_PasteLines ==
    LET old == orig.text_buffer.lines
        clip == clipboard_manager.clipboard_lines
        r == args[1]
        k == Len(clip)
    IN /\ (pc = 1 /\ clip = <<>>) =>
              ret = RetPos(args[1], args[2]) /\ text_buffer = orig.text_buffer
       /\ (pc = 1 /\ clip # <<>> /\ clipboard_manager.is_line_mode) =>
              /\ raised = "none"
              /\ RowReplaced(old, text_buffer.lines, r, clip \o <<Row(old, r)>>)
              /\ text_buffer.modified
              /\ ret = RetPos(r + k, 0)
              /\ ValidPosition(text_buffer, r + k, 0)

\* two different lines were pasted in line mode between two lines of the buffer
C17_Witness ==
    /\ pc = 1 /\ clipboard_manager.is_line_mode
    /\ Len(clipboard_manager.clipboard_lines) = 2
    /\ clipboard_manager.clipboard_lines[1] # clipboard_manager.clipboard_lines[2]
    /\ args[1] > 0

\* C18: paste_text in character mode at a valid cursor (r, c): one fragment f turns
\* line r into line[:c] + f + line[c:], keeps the line count and returns
\* (r, c + len(f)); k >= 2 fragments turn rows r..r+k-1 into before + fragments[0], the
\* middle fragments as whole lines, fragments[k-1] + after (line r split at c), add
\* exactly k - 1 lines, keep all other lines in order and return
\* (r + k - 1, len(fragments[k-1])); the returned Position is valid in the resulting
\* buffer and modified is true.
C18_PasteCharacters ==
    (pc = 1 /\ clipboard_manager.clipboard_lines # <<>> /\ ~clipboard_manager.is_line_mode) =>
        LET old == orig.text_buffer.lines
            new == text_buffer.lines
            clip == clipboard_manager.clipboard_lines
            r == args[1]
            c == args[2]
            k == Len(clip)
            before == Prefix(Row(old, r), c)
            after == Suffix(Row(old, r), c)
        IN /\ raised = "none"
           /\ text_buffer.modified
           /\ ret[1] = "pos" /\ ValidPosition(text_buffer, ret[2], ret[3])
           /\ k = 1 => /\ RowReplaced(old, new, r, <<before \o clip[1] \o after>>)
                       /\ Len(new) = Len(old)
                       /\ ret = RetPos(r, c + Len(clip[1]))
           /\ k >= 2 => /\ RowReplaced(old, new, r,
                                       <<before \o clip[1]>> \o SubSeq(clip, 2, k - 1)
                                       \o <<clip[k] \o after>>)
                        /\ Len(new) = Len(old) + k - 1
                        /\ ret = RetPos(r + k - 1, Len(clip[k]))

\* three fragments were pasted inside a line that is not the first
C18_Witness ==
    /\ pc = 1 /\ ~clipboard_manager.is_line_mode
    /\ Len(clipboard_manager.clipboard_lines) = 3
    /\ clipboard_manager.clipboard_lines[2] # <<>>
    /\ args[1] > 0 /\ args[2] > 0
    /\ args[2] < Len(Row(orig.text_buffer.lines, args[1]))

----------------------------------------------------------------------------
(* SpecFind: searches and navigation on an opened file; args is the last call and
   orig the state before it *)

FindTerms == SearchTerms \cup {<<>>}

NextFind ==
    \/ \E term \in FindTerms, p \in Positions(text_buffer) :
          /\ pc < MaxCalls /\ pc' = pc + 1
          /\ Search(term, p[1], p[2])
          /\ args' = <<"search", term, p[1], p[2]>> /\ orig' = Snapshot
    \/ pc < MaxCalls /\ pc' = pc + 1 /\ FindNext /\ Called("find_next")
    \/ pc < MaxCalls /\ pc' = pc + 1 /\ FindPrevious /\ Called("find_previous")

SpecFind == InitReplace /\ [][NextFind]_vars

\* the position of a match
MatchPos(m) == <<m.row, m.col>>

\* C19: search(buffer, term, from_row, from_col) replaces the match list with a fresh
\* scan for term and returns the first match at or after (from_row, from_col) in
\* document order, or the first match overall if there is none; it returns None only
\* when the fresh list is empty; when it returns a match, current_match_index is the
\* index of that match and get_match_info() reports it with current = index + 1 and
\* total = number of matches.
C19_SearchResult ==
    (args # <<>> /\ args[1] = "search") =>
        LET sm == search_manager
            matches == sm.current_matches
            from == <<args[3], args[4]>>
            later == {j \in 1..Len(matches) : ~Before(MatchPos(matches[j]), from)}
            first == IF later = {} THEN 1 ELSE CHOOSE j \in later : \A k \in later : j <= k
        IN /\ raised = "none"
           /\ sm.last_search = args[2]
           /\ matches = find_all_matches(orig.search_manager, text_buffer, args[2])
           /\ text_buffer = orig.text_buffer
           /\ (ret = RetNone) <=> (matches = <<>>)
           /\ matches # <<>> =>
                 /\ ret = RetMatch(matches[first])
                 /\ sm.current_match_index = first - 1
                 /\ \A k \in later : ~Before(MatchPos(matches[k]), MatchPos(matches[first]))
                 /\ get_match_info(sm) = <<"info", first, Len(matches), ret>>

\* a search from the column of the second match of a row returned that match, after
\* an earlier search for another term
C19_Witness ==
    /\ args # <<>> /\ args[1] = "search"
    /\ orig.search_manager.last_search \notin {<<>>, args[2]}
    /\ search_manager.current_match_index = 1
    /\ ret[1] = "match" /\ ret[2] = args[3] /\ ret[3] = args[4]

\* find_next applied n times
RECURSIVE FindNextTimes(_, _, _)
FindNextTimes(sm, tb, n) ==
    IF n = 0 THEN sm ELSE FindNextTimes(find_next(sm, tb).sm, tb, n - 1)

\* C20: with n >= 1 matches and a search term set, find_next sets the index to
\* (i + 1) mod n and find_previous to (i - 1) mod n, each undoes the other, n
\* consecutive find_next calls return to the starting match, and neither changes the
\* buffer or the match list; with an empty match list or no search term both return
\* None, never raise, and change no state.
C20_CircularNavigation ==
    (args \in {<<"find_next">>, <<"find_previous">>}) =>
        LET sm == search_manager
            before == orig.search_manager
            n == Len(before.current_matches)
            i == before.current_match_index
            step == IF args = <<"find_next">> THEN 1 ELSE n - 1
            back == IF args = <<"find_next">> THEN find_previous(sm, text_buffer)
                    ELSE find_next(sm, text_buffer)
        IN /\ raised = "none"
           /\ text_buffer = orig.text_buffer
           /\ sm.current_matches = before.current_matches
           /\ (n = 0 \/ before.last_search = <<>>) => ret = RetNone /\ sm = before
           /\ (n >= 1 /\ before.last_search # <<>>) =>
                 /\ sm.current_match_index = (i + step) % n
                 /\ ret = RetMatch(sm.current_matches[sm.current_match_index + 1])
                 /\ back.sm = before
                 /\ FindNextTimes(before, text_buffer, n) = before

\* find_previous wrapped from the first match to the last of three or more
C20_Witness ==
    /\ args = <<"find_previous">>
    /\ Len(search_manager.current_matches) >= 3
    /\ orig.search_manager.current_match_index = 0
    /\ search_manager.current_match_index = Len(search_manager.current_matches) - 1

----------------------------------------------------------------------------
(* SpecSearchSession: any calls of the search manager on an opened file; args is the
   last call and orig the state before it *)

\* one more call of the session, recorded
Op(A, call) ==
    pc < MaxCalls /\ pc' = pc + 1 /\ A /\ args' = call /\ orig' = Snapshot
    /\ Bounded(text_buffer')

NextSearchSession ==
    \/ \E term \in SearchTerms, p \in Positions(text_buffer) :
          Op(Search(term, p[1], p[2]), <<"search", term>>)
    \/ Op(FindNext, <<"find_next">>)
    \/ Op(FindPrevious, <<"find_previous">>)
    \/ \E repl \in SearchReplacements : Op(ReplaceCurrent(repl), <<"replace_current", repl>>)
    \/ \E term \in SearchTerms, repl \in SearchReplacements :
          Op(ReplaceAll(term, repl), <<"replace_all", term, repl>>)

SpecSearchSession == InitReplace /\ [][NextSearchSession]_vars

\* C21: after every call of replace_all, whatever the number of matches found (zero
\* included) and whatever match list an earlier search left, the match list is empty
\* and current_match_index is -1.
C21_ReplaceAllClearsMatches ==
    (args # <<>> /\ args[1] = "replace_all") =>
        /\ search_manager.current_matches = <<>>
        /\ search_manager.current_match_index = -1

\* C22: in every state reachable by search, find_next, find_previous, replace_current
\* and replace_all, current_match_index is -1 whenever the match list is empty.
C22_NoMatchNoIndex ==
    search_manager.current_matches = <<>> => search_manager.current_match_index = -1

----------------------------------------------------------------------------
(* SpecStaleReplace: a search from the start of the file, then replacements of the
   current match and steps to the next one *)

\* calls of one such session
StaleCalls == MaxCalls + 2

Later(A, call) ==
    /\ 0 < pc /\ pc < StaleCalls /\ pc' = pc + 1
    /\ A /\ args' = call /\ orig' = Snapshot
    /\ Bounded(text_buffer')

NextStaleReplace ==
    \/ \E term \in SearchTerms : pc = 0 /\ Op(Search(term, 0, 0), <<"search", term>>)
    \/ Later(FindNext, <<"find_next">>)
    \/ \E repl \in SearchReplacements : Later(ReplaceCurrent(repl), <<"replace_current", repl>>)

SpecStaleReplace == InitReplace /\ [][NextStaleReplace]_vars

\* C23: replace_current returns false and changes nothing (lines, modified, match
\* list, index) when current_match_index is outside [0, number of matches); otherwise
\* it replaces line[row][col : col+length] of the current match by the replacement,
\* sets modified, returns true and leaves current_match_index and the number of
\* matches unchanged.
C23_ReplaceCurrentEffect ==
    (args # <<>> /\ args[1] = "replace_current") =>
        LET sm == search_manager
            before == orig.search_manager
            old == orig.text_buffer.lines
            i == before.current_match_index
        IN /\ raised = "none"
           /\ (i < 0 \/ i >= Len(before.current_matches)) =>
                 ret = RetBool(FALSE) /\ text_buffer = orig.text_buffer /\ sm = before
           /\ (0 <= i /\ i < Len(before.current_matches)) =>
                 LET m == before.current_matches[i + 1]
                     line == Row(old, m.row)
                     from == SliceIdx(line, m.col)
                     to == Max(from, SliceIdx(line, m.col + m.length))
                 IN /\ ret = RetBool(TRUE)
                    /\ text_buffer.lines =
                           [old EXCEPT ![m.row + 1] =
                               Prefix(line, from) \o args[2] \o Suffix(line, to)]
                    /\ text_buffer.modified
                    /\ sm.current_match_index = i
                    /\ Len(sm.current_matches) = Len(before.current_matches)

----------------------------------------------------------------------------
(* SpecScan: one scan or one replace_all on an opened file, in either case mode; pc
   is 2 after find_all_matches and 3 after replace_all; args is that call and orig
   the state before it *)

\* the two-line document "hello world" / "foo" as file content
ScenarioContent ==
    <<"h", "e", "l", "l", "o", " ", "w", "o", "r", "l", "d", LF, "f", "o", "o">>
ScenarioLines == splitlines(ScenarioContent)

ScanTerms == FoldTerms \cup {<<>>, <<"o">>}
ScanReplacements == FoldReplacements \cup {<<"0">>}

InitScan ==
    /\ \E content \in Strings(FoldChars \cup {LF}, MaxDoc) \cup {ScenarioContent} :
          /\ text_buffer = load_file(NewTextBuffer, "f", TRUE, content).tb
          /\ disk = [exists |-> TRUE, content |-> content]
    /\ \E flag \in BOOLEAN : search_manager = [NewSearchManager EXCEPT !.case_sensitive = flag]
    /\ clipboard_manager = NewClipboardManager
    /\ selection_manager = NewSelectionManager
    /\ cursor = NewCursor
    /\ ret = RetNone /\ raised = "none" /\ replaced = {} /\ pc = 0 /\ args = <<>>
    /\ orig = Snapshot

NextScan ==
    \/ \E term \in ScanTerms :
          pc = 0 /\ Search(term, 0, 0) /\ pc' = 1 /\ UNCHANGED <<args, orig>>
    \/ pc = 0 /\ InsertChar(0, 0, "b") /\ pc' = 1 /\ UNCHANGED <<args, orig>>
    \/ \E term \in ScanTerms :
          /\ pc \in {0, 1}
          /\ FindAllMatches(term)
          /\ args' = <<term>> /\ orig' = Snapshot /\ pc' = 2
    \/ \E term \in ScanTerms, repl \in ScanReplacements :
          /\ pc \in {0, 1}
          /\ ReplaceAll(term, repl)
          /\ args' = <<term, repl>> /\ orig' = Snapshot /\ pc' = 3

SpecScan == InitScan /\ [][NextScan]_vars

\* the line with every match of the list on this row replaced, left to right
RECURSIVE Substituted(_, _, _, _, _, _)
Substituted(line, row, matches, k, pos, repl) ==
    IF k > Len(matches) THEN Suffix(line, pos)
    ELSE IF matches[k].row # row THEN Substituted(line, row, matches, k + 1, pos, repl)
    ELSE SubSeq(line, pos + 1, matches[k].col) \o repl
         \o Substituted(line, row, matches, k + 1, matches[k].col + matches[k].length, repl)

\* C24: replace_all returns exactly the number of matches find_all_matches yields on
\* the pre-call buffer, and the resulting lines are the ones obtained by replacing
\* every such match simultaneously, left to right; the line count is unchanged;
\* modified becomes true when the count is > 0 and is left unchanged when it is 0.
\* Literal "o" -> "0" over ["hello world", "foo"] returns 4 and yields
\* ["hell0 w0rld", "f00"].
C24_ReplaceAllSubstitutes ==
    pc = 3 =>
        LET old == orig.text_buffer.lines
            new == text_buffer.lines
            found == find_all_matches(orig.search_manager, orig.text_buffer, args[1])
        IN /\ raised = "none"
           /\ ret = RetInt(Len(found))
           /\ Len(new) = Len(old)
           /\ \A r \in 0..(Len(old) - 1) :
                 Row(new, r) = Substituted(Row(old, r), r, found, 1, 0, args[2])
           /\ text_buffer.modified = (orig.text_buffer.modified \/ Len(found) > 0)
           /\ (old = ScenarioLines /\ args = <<<<"o">>, <<"0">>>>) =>
                 /\ ret = RetInt(4)
                 /\ new = <<<<"h", "e", "l", "l", "0", " ", "w", "0", "r", "l", "d">>,
                            <<"f", "0", "0">>>>

\* "o" was replaced by "0" in the two-line document
C24_Witness ==
    /\ pc = 3 /\ orig.text_buffer.lines = ScenarioLines
    /\ args = <<<<"o">>, <<"0">>>> /\ ret = RetInt(4)

\* the two-line document was scanned for "o", ignoring case
ScenarioScanned ==
    /\ pc = 2 /\ text_buffer.lines = ScenarioLines /\ args = <<<<"o">>>>
    /\ ~search_manager.case_sensitive

\* C25 as stated: for the literal, case-insensitive term "o" over
\* ["hello world", "foo"], find_all_matches yields exactly four matches, at (0,4),
\* (0,7), (1,0), (1,1), in that order.
C25_ScenarioMatches ==
    ScenarioScanned =>
        [k \in 1..Len(ret[2]) |-> MatchPos(ret[2][k])] = <<<<0, 4>>, <<0, 7>>, <<1, 0>>, <<1, 1>>>>

\* C25: for the literal, case-insensitive term "o" over ["hello world", "foo"],
\* find_all_matches yields exactly four matches, at (0,4), (0,7), (1,1), (1,2), in
\* that order: the columns of the two "o" of "foo".
C25_ScenarioMatchColumns ==
    ScenarioScanned =>
        [k \in 1..Len(ret[2]) |-> MatchPos(ret[2][k])] = <<<<0, 4>>, <<0, 7>>, <<1, 1>>, <<1, 2>>>>

\* the scan of the two-line document reached its second line
C25_Witness ==
    ScenarioScanned /\ Len(ret[2]) = 4 /\ ret[2][3].row = 1

\* the term occurs in the line at column c, compared as the manager compares
Occurs(line, c, term, case_sensitive) ==
    /\ 0 <= c /\ c + Len(term) <= Len(line)
    /\ \A j \in 1..Len(term) :
          IF case_sensitive THEN line[c + j] = term[j] ELSE lower(line[c + j]) = lower(term[j])

\* C26: for a non-empty literal term, find_all_matches returns exactly the leftmost
\* non-overlapping occurrences of the term on each line (ignoring case unless
\* case_sensitive is set), never spanning two lines, in increasing row and, within a
\* row, increasing col; every match has length = len(term) and
\* text = line[row][col : col+length]; an empty term yields the empty list; the call
\* changes neither the buffer nor the manager's match list or index.
C26_LeftmostOccurrences ==
    pc = 2 =>
        LET ms == ret[2]
            term == args[1]
            lines == text_buffer.lines
            flag == search_manager.case_sensitive
        IN /\ raised = "none"
           /\ text_buffer = orig.text_buffer
           /\ search_manager = orig.search_manager
           /\ term = <<>> => ms = <<>>
           /\ term # <<>> =>
                 /\ \A k \in 1..Len(ms) :
                       /\ 0 <= ms[k].row /\ ms[k].row < Len(lines)
                       /\ Occurs(Row(lines, ms[k].row), ms[k].col, term, flag)
                       /\ ms[k].length = Len(term)
                       /\ ms[k].text = SubSeq(Row(lines, ms[k].row), ms[k].col + 1,
                                              ms[k].col + ms[k].length)
                 /\ \A k \in 1..(Len(ms) - 1) :
                       \/ ms[k].row < ms[k + 1].row
                       \/ /\ ms[k].row = ms[k + 1].row
                          /\ ms[k].col + ms[k].length <= ms[k + 1].col
                 /\ \A r \in 0..(Len(lines) - 1) : \A c \in 0..Len(Row(lines, r)) :
                       Occurs(Row(lines, r), c, term, flag) =>
                           \E k \in 1..Len(ms) :
                               /\ ms[k].row = r
                               /\ ms[k].col <= c /\ c < ms[k].col + ms[k].length

\* a scan ignoring case found a text written differently from the term, with an
\* occurrence left out because it overlaps a match, after an earlier search
C26_Witness ==
    /\ pc = 2 /\ ~search_manager.case_sensitive
    /\ search_manager.current_matches # <<>>
    /\ Len(ret[2]) = 1 /\ ret[2][1].text # args[1]
    /\ Occurs(Row(text_buffer.lines, ret[2][1].row), ret[2][1].col + 1, args[1], FALSE)

----------------------------------------------------------------------------
(* SpecEdit: backspace_char on valid Positions and delete_char on rows and columns in
   and just outside the buffer; args is the last call and orig the state before it *)

InitEdit == Opened(ClipChars) /\ cursor = NewCursor /\ orig = Snapshot

NextEdit ==
    \/ \E p \in Positions(text_buffer) :
          Op(BackspaceChar(p[1], p[2]), <<"backspace_char", p[1], p[2]>>)
    \/ \E r \in RowArgs(text_buffer) : \E c \in ColArgs(text_buffer, r) :
          Op(DeleteChar(r, c), <<"delete_char", r, c>>)

SpecEdit == InitEdit /\ [][NextEdit]_vars

\* C27: backspace_char(row, col) on a valid position: if col > 0 it removes the
\* character at col - 1 of line[row] and returns (row, col - 1), line count unchanged;
\* if col = 0 and row > 0 it replaces line[row-1] by line[row-1] + line[row] and
\* removes line[row] (one line fewer, the others in order) and returns
\* (row - 1, old length of line[row-1]); at (0, 0) it returns (0, 0) and leaves the
\* lines and the modified flag unchanged. In the first two cases modified is set.
C27_BackspaceEffect ==
    (args # <<>> /\ args[1] = "backspace_char") =>
        LET row == args[2]
            col == args[3]
            old == orig.text_buffer.lines
            new == text_buffer.lines
        IN /\ raised = "none"
           /\ col > 0 =>
                 /\ new = [old EXCEPT ![row + 1] = Prefix(Row(old, row), col - 1)
                                                   \o Suffix(Row(old, row), col)]
                 /\ Len(Row(new, row)) = Len(Row(old, row)) - 1
                 /\ ret = RetPos(row, col - 1)
                 /\ text_buffer.modified
           /\ (col = 0 /\ row > 0) =>
                 /\ RowsRemoved([old EXCEPT ![row] = Row(old, row - 1) \o Row(old, row)],
                                new, row, row)
                 /\ ret = RetPos(row - 1, Len(Row(old, row - 1)))
                 /\ text_buffer.modified
           /\ (col = 0 /\ row = 0) =>
                 /\ ret = RetPos(0, 0)
                 /\ text_buffer = orig.text_buffer

\* two non-empty lines were joined below a line that stays
C27_Witness ==
    /\ args # <<>> /\ args[1] = "backspace_char" /\ args[2] > 1 /\ args[3] = 0
    /\ Row(orig.text_buffer.lines, args[2] - 1) # <<>>
    /\ Row(orig.text_buffer.lines, args[2]) # <<>>
    /\ ~orig.text_buffer.modified

\* C28: delete_char(row, col) returns true exactly when 0 <= row < line_count and
\* 0 <= col < len(line[row]), and then exactly the character at col is removed from
\* that line and modified is set; for every other (row, col), negative values
\* included, it returns false and leaves every line and the modified flag unchanged.
C28_DeleteCharResult ==
    (args # <<>> /\ args[1] = "delete_char") =>
        LET row == args[2]
            col == args[3]
            old == orig.text_buffer.lines
        IN /\ raised = "none"
           /\ IF 0 <= row /\ row < Len(old) /\ 0 <= col /\ col < Len(Row(old, row))
              THEN /\ ret = RetBool(TRUE)
                   /\ text_buffer.lines = [old EXCEPT ![row + 1] = Prefix(Row(old, row), col)
                                                                   \o Suffix(Row(old, row), col + 1)]
                   /\ text_buffer.modified
              ELSE /\ ret = RetBool(FALSE)
                   /\ text_buffer = orig.text_buffer

----------------------------------------------------------------------------
(* SpecClamp: the cursor is first set anywhere, then moved vertically, the buffer shrinks
   under it, and clamp_to_buffer is called; args is the last call and orig the state before it *)

\* the content of the lines is of no concern to the cursor: one letter is enough
InitClamp == Opened({"a"}) /\ CursorPlaced /\ orig = Snapshot

\* rows and columns from below 0 to beyond the buffer
ClampRows(tb) == -2..(Len(tb.lines) + 1)
ClampCols == -2..(MaxDoc + 1)

NextClamp ==
    \/ \E r \in ClampRows(text_buffer), c \in ClampCols :
          pc = 0 /\ Op(SetPosition(r, c), <<"set_position", r, c>>)
    \/ Op(MoveUp, <<"move_up">>)
    \/ Op(MoveDown, <<"move_down">>)
    \/ \E p \in Positions(text_buffer) :
          Op(BackspaceChar(p[1], p[2]), <<"backspace_char", p[1], p[2]>>)
    \/ Op(ClampToBuffer, <<"clamp_to_buffer">>)

SpecClamp == InitClamp /\ [][NextClamp]_vars

\* C29: for every buffer and every integer cursor row and col (negative or beyond the
\* buffer included), clamp_to_buffer leaves the cursor with
\* 0 <= row <= line_count - 1, 0 <= col <= line_length(row) and desired_col = col,
\* does not change the buffer, changes nothing when the cursor was already valid with
\* desired_col = col, and is idempotent.
C29_ClampRestoresValidity ==
    (args = <<"clamp_to_buffer">>) =>
        /\ raised = "none"
        /\ 0 <= cursor.row /\ cursor.row <= get_line_count(text_buffer) - 1
        /\ 0 <= cursor.col /\ cursor.col <= get_line_length(text_buffer, cursor.row)
        /\ cursor.desired_col = cursor.col
        /\ text_buffer = orig.text_buffer
        /\ ( /\ ValidPosition(orig.text_buffer, orig.cursor.row, orig.cursor.col)
             /\ orig.cursor.desired_col = orig.cursor.col ) => cursor = orig.cursor
        /\ clamp_to_buffer(cursor, text_buffer).cur = cursor

\* the buffer shrank under the cursor and the clamp moved it back inside
C29_Witness ==
    /\ args = <<"clamp_to_buffer">>
    /\ orig.text_buffer.modified
    /\ ~ValidPosition(orig.text_buffer, orig.cursor.row, orig.cursor.col)
    /\ 0 <= orig.cursor.row /\ 0 <= orig.cursor.col
    /\ cursor # orig.cursor

----------------------------------------------------------------------------
(* SpecBoundary: vertical and horizontal movements of a cursor over an opened file;
   args is the last call and orig the state before it *)

NextBoundary ==
    \/ Op(MoveUp, <<"move_up">>)
    \/ Op(MoveDown, <<"move_down">>)
    \/ Op(MoveLeft, <<"move_left">>)
    \/ Op(MoveRight, <<"move_right">>)

SpecBoundary == InitCursor /\ [][NextBoundary]_vars

\* C30: move_left with the cursor at (0,0) and move_right with the cursor at
\* (last_row, len(line[last_row])) are no-ops: row, col and desired_col of the cursor
\* and the buffer are unchanged, in every reachable cursor state, including one where
\* desired_col differs from col after a vertical move.
C30_BoundaryMovesAreNoOps ==
    LET last_row == get_line_count(orig.text_buffer) - 1
        at_start == orig.cursor.row = 0 /\ orig.cursor.col = 0
        at_end == /\ orig.cursor.row = last_row
                  /\ orig.cursor.col = get_line_length(orig.text_buffer, last_row)
    IN ((args = <<"move_left">> /\ at_start) \/ (args = <<"move_right">> /\ at_end)) =>
           /\ raised = "none"
           /\ cursor = orig.cursor
           /\ text_buffer = orig.text_buffer

----------------------------------------------------------------------------
\* C31: in every state reachable by any sequence of load_file, insert_char (any
\* character argument), insert_line, backspace_char, delete_char, cut/paste,
\* replace_current and replace_all (any replacement string), no line of the buffer
\* contains a line-break character.
C31_NoLineBreakInLines ==
    \A k \in 1..Len(text_buffer.lines) :
        \A i \in 1..Len(text_buffer.lines[k]) : text_buffer.lines[k][i] \notin LineBreaks

----------------------------------------------------------------------------
(* SpecCopyWord: the word at the cursor is copied on an opened file, the cursor on a
   valid Position or set on rows and columns in and beyond the buffer, the clipboard
   empty or holding a line; pc is 3 after copy_word_at_cursor and orig the state
   before it *)

NextCopyWord ==
    \/ \E r \in 0..(Len(text_buffer.lines) - 1) :
          pc = 0 /\ CopyLine(r) /\ pc' = 1 /\ UNCHANGED <<args, orig>>
    \/ \E r \in RowArgs(text_buffer) : \E c \in 0..(get_line_length(text_buffer, r) + 1) :
          pc \in {0, 1} /\ SetPosition(r, c) /\ pc' = 2 /\ UNCHANGED <<args, orig>>
    \/ /\ pc \in {0, 1, 2}
       /\ CopyWordAtCursor
       /\ args' = <<"copy_word_at_cursor">> /\ orig' = Snapshot /\ pc' = 3

SpecCopyWord == InitCursor /\ [][NextCopyWord]_vars

\* C32: copy_word_at_cursor uses the same word-boundary scan as
\* select_word_at_position: for every line and cursor (row, col) the two return the
\* same boolean; when true, the clipboard holds exactly one fragment equal to the
\* text of the span select_word_at_position would select, with line_mode = false;
\* when false, the clipboard fragments and line_mode are unchanged. The buffer is
\* never modified.
C32_CopyWordAsSelectWord ==
    pc = 3 =>
        LET selected == select_word_at_position(NewSelectionManager, text_buffer,
                                                cursor.row, cursor.col)
            bounds == get_selection_bounds(selected.sel)
        IN /\ raised = "none" /\ selected.raised = "none"
           /\ ret = selected.ret
           /\ ret \in {RetBool(TRUE), RetBool(FALSE)}
           /\ text_buffer = orig.text_buffer
           /\ cursor = orig.cursor
           /\ ret = RetBool(TRUE) =>
                 /\ bounds # RetNone
                 /\ bounds[2] = cursor.row /\ bounds[4] = cursor.row
                 /\ clipboard_manager.clipboard_lines =
                       <<SubSeq(get_line(text_buffer, cursor.row), bounds[3] + 1, bounds[5])>>
                 /\ clipboard_manager.is_line_mode = FALSE
           /\ ret = RetBool(FALSE) => clipboard_manager = orig.clipboard_manager

\* a word inside a longer line was copied over a clipboard that held a line
C32_Witness ==
    /\ pc = 3 /\ ret = RetBool(TRUE)
    /\ orig.clipboard_manager.is_line_mode
    /\ clipboard_manager.clipboard_lines # orig.clipboard_manager.clipboard_lines
    /\ Len(clipboard_manager.clipboard_lines[1]) > 1
    /\ Len(clipboard_manager.clipboard_lines[1]) < get_line_length(text_buffer, cursor.row)

----------------------------------------------------------------------------
(* SpecSelectedText: a selection is started, moved, ended or made of the whole opened
   file, on rows and columns in and beyond the buffer, and at last its text is read;
   args is the last call, followed by the call before it once the text is read, and orig
   the state before the read *)

InitSelectedText == Opened(SearchChars) /\ cursor = NewCursor /\ orig = Snapshot

\* a call on the selection, named in args, as long as the text has not been read
Named(A, name) ==
    /\ Len(args) < 2
    /\ A /\ args' = <<name>> /\ UNCHANGED <<pc, orig>>

NextSelectedText ==
    \/ \E p \in SelArgs : Named(StartSelection(p[1], p[2]), "start_selection")
    \/ \E p \in SelArgs : Named(UpdateSelection(p[1], p[2]), "update_selection")
    \/ Named(EndSelection, "end_selection")
    \/ Named(SelectAll, "select_all")
    \/ /\ GetSelectedText
       /\ Len(args) = 1
       /\ args' = <<"get_selected_text", args[1]>> /\ orig' = Snapshot /\ pc' = pc

SpecSelectedText == InitSelectedText /\ [][NextSelectedText]_vars

\* C33: for every active non-empty selection, get_selected_text(buffer) equals the
\* fragments that copy_text captures for get_selection_bounds(), joined with a
\* newline; it returns the empty string when has_selection() is false; after
\* select_all on a buffer this text is the whole document (all lines joined with
\* newline).
C33_SelectedTextAsCopied ==
    (args # <<>> /\ args[1] = "get_selected_text") =>
        LET bounds == get_selection_bounds(selection_manager)
            copied == copy_text(NewClipboardManager, text_buffer,
                                bounds[2], bounds[3], bounds[4], bounds[5])
        IN /\ raised = "none"
           /\ text_buffer = orig.text_buffer
           /\ selection_manager = orig.selection_manager
           /\ has_selection(selection_manager) =>
                 ret = <<"str", join(copied.clipboard_lines)>>
           /\ ~has_selection(selection_manager) => ret = <<"str", <<>>>>
           /\ args[2] = "select_all" => ret = <<"str", join(text_buffer.lines)>>

\* the text of a selection made backwards over three lines was read
C33_Witness ==
    /\ args = <<"get_selected_text", "update_selection">>
    /\ has_selection(selection_manager)
    /\ selection_manager.start_row = selection_manager.end_row + 2
    /\ selection_manager.end_row = 0 /\ selection_manager.end_col > 0
    /\ Len(ret[2]) > 2

----------------------------------------------------------------------------
(* SpecEditor: keys handled by the Editor on an opened file, the cursor on a valid
   Position that earlier keys left it on; args is the last key and orig the state
   before it *)

Keys ==
    {"KEY_UP", "KEY_DOWN", "KEY_LEFT", "KEY_RIGHT", "KEY_HOME", "KEY_END", "KEY_PPAGE",
     "KEY_NPAGE", "Enter", "KEY_BACKSPACE", "KEY_DC", "Tab", "a", " "}
\* heights of the text area, from none to more than the lines of a document
TextHeights == {0, 1, MaxDoc + 1}

PageKeys == {"KEY_PPAGE", "KEY_NPAGE"}

\* the height of the text area matters to the page keys only
NextEditor ==
    \/ \E key \in PageKeys, text_height \in TextHeights :
          Op(HandleKeyInput(key, text_height), <<key>>)
    \/ \E key \in Keys \ PageKeys : Op(HandleKeyInput(key, 1), <<key>>)

SpecEditor == InitClamp /\ [][NextEditor]_vars

\* C34: in the Editor, after handle_key_input returns for any key of any key sequence
\* (arrows, Home/End, PageUp/PageDown, Enter, Backspace, Delete, Tab, printable
\* characters), the cursor is a valid Position of the text buffer; and a printable
\* key inserts the character at the cursor and leaves the cursor one column to its
\* right on the same row.
C34_KeysKeepCursorValid ==
    /\ raised = "none"
    /\ 0 <= cursor.row /\ cursor.row < get_line_count(text_buffer)
    /\ 0 <= cursor.col /\ cursor.col <= get_line_length(text_buffer, cursor.row)
    /\ (args # <<>> /\ args[1] \in PrintableKeys) =>
          LET row == orig.cursor.row
              col == orig.cursor.col
              old == orig.text_buffer.lines
          IN /\ text_buffer.lines =
                   [old EXCEPT ![row + 1] = Prefix(Row(old, row), col) \o <<args[1]>>
                                            \o Suffix(Row(old, row), col)]
             /\ cursor.row = row /\ cursor.col = col + 1

\* a character was typed inside a line of a document of several lines
C34_Witness ==
    /\ args = <<"a">> /\ pc = MaxCalls
    /\ 0 < orig.cursor.col
    /\ orig.cursor.col < get_line_length(orig.text_buffer, orig.cursor.row)
    /\ get_line_count(text_buffer) > 1

----------------------------------------------------------------------------
(* SpecDownUp: the keys Down, Up handled by the Editor from a valid cursor Position;
   args lists the keys handled and orig is the state before the first *)

NextDownUp ==
    \/ /\ pc = 0 /\ HandleKeyInput("KEY_DOWN", 1)
       /\ pc' = 1 /\ args' = <<"KEY_DOWN">> /\ UNCHANGED orig
    \/ /\ pc = 1 /\ HandleKeyInput("KEY_UP", 1)
       /\ pc' = 2 /\ args' = <<"KEY_DOWN", "KEY_UP">> /\ UNCHANGED orig

SpecDownUp == InitCursor /\ [][NextDownUp]_vars

\* C35: sticky column through the key-dispatch layer: in the Editor, with the cursor
\* at valid (r, c) on a row r that is not the last, the key sequence Down, Up handled
\* by handle_key_input returns the cursor to (r, c), also when line r+1 is shorter
\* than c.
C35_DownUpRestoresColumn ==
    (pc = 2 /\ orig.cursor.row < get_line_count(text_buffer) - 1) =>
        /\ cursor.row = orig.cursor.row
        /\ cursor.col = orig.cursor.col

----------------------------------------------------------------------------
(* SpecModified: the session of Spec, its cuts over one row or two adjacent rows, with
   orig.text_buffer the buffer as the last successful load_file or save_file left it
   (as constructed before any) *)

\* one more call; a file call that succeeded is the new reference
Tracked(A, file) ==
    /\ pc < MaxCalls /\ pc' = pc + 1 /\ A /\ Bounded(text_buffer')
    /\ args' = args
    /\ orig' = IF file /\ raised' = "none" THEN [orig EXCEPT !.text_buffer = text_buffer']
               ELSE orig

NextModified ==
    \/ \E readable \in BOOLEAN, content \in FileContents :
          Tracked(LoadFile(readable, content), TRUE)
    \/ \E filename \in Filenames, io \in {"ok", "open", "write"} :
          Tracked(SaveFile(filename, io, 0), TRUE)
    \/ \E r \in RowArgs(text_buffer) : \E c \in ColArgs(text_buffer, r), ch \in Chars :
          Tracked(InsertChar(r, c, ch), FALSE)
    \/ \E r \in RowArgs(text_buffer) : \E c \in ColArgs(text_buffer, r) :
          Tracked(DeleteChar(r, c), FALSE)
    \/ \E r \in RowArgs(text_buffer) : \E c \in ColArgs(text_buffer, r) :
          Tracked(BackspaceChar(r, c), FALSE)
    \/ \E r \in RowArgs(text_buffer) : \E c \in ColArgs(text_buffer, r) :
          Tracked(InsertLine(r, c), FALSE)
    \/ \E sr \in RowArgs(text_buffer), er \in RowArgs(text_buffer) :
          \E sc \in ColArgs(text_buffer, sr), ec \in ColArgs(text_buffer, er) :
             sr - 1 <= er /\ er <= sr + 1 /\ Tracked(CutText(sr, sc, er, ec), FALSE)
    \/ \E r \in RowArgs(text_buffer) : Tracked(CutLine(r), FALSE)
    \/ \E r \in RowArgs(text_buffer) : \E c \in ColArgs(text_buffer, r) :
          Tracked(PasteText(r, c), FALSE)
    \/ \E term \in Terms : Tracked(Search(term, 0, 0), FALSE)
    \/ Tracked(FindNext, FALSE)
    \/ Tracked(FindPrevious, FALSE)
    \/ \E repl \in Replacements : Tracked(ReplaceCurrent(repl), FALSE)
    \/ \E term \in Terms, repl \in Replacements : Tracked(ReplaceAll(term, repl), FALSE)

SpecModified == Init /\ [][NextModified]_vars

----------------------------------------------------------------------------
(* SpecPersist: an opened file is edited by insert_line and insert_char on valid
   Positions, saved, and loaded again from what the save wrote; pc is 1 after the
   save and 2 after the load, and orig is the state before the save *)

NextPersist ==
    \/ \E p \in Positions(text_buffer) :
          pc = 0 /\ InsertLine(p[1], p[2]) /\ Bounded(text_buffer') /\ Still
    \/ \E p \in Positions(text_buffer), ch \in ClipChars :
          pc = 0 /\ InsertChar(p[1], p[2], ch) /\ Bounded(text_buffer') /\ Still
    \/ /\ pc = 0 /\ SaveFile("f", "ok", 0)
       /\ pc' = 1 /\ orig' = Snapshot /\ UNCHANGED args
    \/ /\ pc = 1 /\ LoadFile(TRUE, disk.content)
       /\ pc' = 2 /\ UNCHANGED <<args, orig>>

SpecPersist == InitSplitJoin /\ [][NextPersist]_vars

\* C37: persistence round trip: for every buffer whose lines contain no line-break
\* character, a successful save_file followed by load_file of the same file
\* reproduces exactly the same line sequence (same line count and contents),
\* including buffers whose last line or lines are empty.
C37_SaveLoadRoundTrip ==
    pc = 2 => text_buffer.lines = orig.text_buffer.lines

----------------------------------------------------------------------------
(* SpecWordForward: move_word_forward repeated from a valid cursor Position of an
   opened file; orig is the state before the last call *)

NextWordForward == Op(MoveWordForward, <<"move_word_forward">>)

SpecWordForward == InitCursor /\ [][NextWordForward]_vars

\* C38: progress of word motion: from every valid cursor position other than the end
\* of the last line, move_word_forward strictly advances the cursor in document
\* (row, then col) order, whatever character is under the cursor (alphanumeric,
\* whitespace or punctuation); hence repeating it eventually reaches the end of the
\* document.
C38_WordForwardAdvances ==
    LET last_row == get_line_count(text_buffer) - 1
        at_end == /\ orig.cursor.row = last_row
                  /\ orig.cursor.col = get_line_length(text_buffer, last_row)
    IN (args = <<"move_word_forward">> /\ ~at_end) =>
           \/ cursor.row > orig.cursor.row
           \/ cursor.row = orig.cursor.row /\ cursor.col > orig.cursor.col

----------------------------------------------------------------------------
\* C39: in every state reachable by any sequence of search, find_next, find_previous,
\* replace_current and replace_all, if the match list is non-empty then
\* 0 <= current_match_index < number of matches, so find_next, find_previous,
\* replace_current and get_match_info never index outside the match list.
C39_MatchIndexInList ==
    /\ raised = "none"
    /\ search_manager.current_matches # <<>> =>
          /\ 0 <= search_manager.current_match_index
          /\ search_manager.current_match_index < Len(search_manager.current_matches)
          /\ get_match_info(search_manager) # RetNone

\* find_previous has wrapped from the first match to the last of several
C39_Witness ==
    /\ args = <<"find_previous">>
    /\ orig.search_manager.current_match_index = 0
    /\ Len(search_manager.current_matches) > 1
    /\ search_manager.current_match_index = Len(search_manager.current_matches) - 1

====
